---- MODULE Spec2Model ----
(***************************************************************************)
(* Phone PC Sync (server.py): the request handlers of FileTransferHandler  *)
(* over the destination directory and the in-memory synced text.           *)
(*                                                                         *)
(* A character is a one-character string; a name, a header value or a path *)
(* is a sequence of characters.  A character written "<..>" or "U+...."    *)
(* stands for the one character it names.  File and request bodies are     *)
(* byte strings kept run-length encoded (a sequence of runs <<byte, n>>),  *)
(* so that bodies longer than one 64 KiB chunk stay small in the model.    *)
(***************************************************************************)
EXTENDS Integers, Sequences, FiniteSets, TLC

(***************************************************************************)
(* Bounds of the model.                                                    *)
(***************************************************************************)
\* how many uploads may write to the directory in one behaviour
MaxUploads == 2
\* how far the clock (whole seconds) advances
MaxTime == 2

(***************************************************************************)
(* Characters.                                                             *)
(***************************************************************************)
\* chr(b) for b in 0..127; Ascii[b + 1] is the character of byte b
Ascii ==
    <<
       "<00>", "<01>", "<02>", "<03>", "<04>", "<05>", "<06>", "<07>",
       "<08>", "<09>", "<0A>", "<0B>", "<0C>", "<0D>", "<0E>", "<0F>",
       "<10>", "<11>", "<12>", "<13>", "<14>", "<15>", "<16>", "<17>",
       "<18>", "<19>", "<1A>", "<1B>", "<1C>", "<1D>", "<1E>", "<1F>",
       " ", "!", "<22>", "#", "$", "%", "&", "'",
       "(", ")", "*", "+", ",", "-", ".", "/",
       "0", "1", "2", "3", "4", "5", "6", "7",
       "8", "9", ":", ";", "<", "=", ">", "?",
       "@", "A", "B", "C", "D", "E", "F", "G",
       "H", "I", "J", "K", "L", "M", "N", "O",
       "P", "Q", "R", "S", "T", "U", "V", "W",
       "X", "Y", "Z", "[", "<5C>", "]", "^", "_",
       "<60>", "a", "b", "c", "d", "e", "f", "g",
       "h", "i", "j", "k", "l", "m", "n", "o",
       "p", "q", "r", "s", "t", "u", "v", "w",
       "x", "y", "z", "{", "|", "}", "~", "<7F>" >>

\* chr(cp) for the code points 0x80..0xFF, the ones a two-byte UTF-8
\* sequence with lead byte 0xC2 or 0xC3 encodes
Latin1 ==
    <<
       "U+0080", "U+0081", "U+0082", "U+0083", "U+0084", "U+0085", "U+0086", "U+0087",
       "U+0088", "U+0089", "U+008A", "U+008B", "U+008C", "U+008D", "U+008E", "U+008F",
       "U+0090", "U+0091", "U+0092", "U+0093", "U+0094", "U+0095", "U+0096", "U+0097",
       "U+0098", "U+0099", "U+009A", "U+009B", "U+009C", "U+009D", "U+009E", "U+009F",
       "U+00A0", "U+00A1", "U+00A2", "U+00A3", "U+00A4", "U+00A5", "U+00A6", "U+00A7",
       "U+00A8", "U+00A9", "U+00AA", "U+00AB", "U+00AC", "U+00AD", "U+00AE", "U+00AF",
       "U+00B0", "U+00B1", "U+00B2", "U+00B3", "U+00B4", "U+00B5", "U+00B6", "U+00B7",
       "U+00B8", "U+00B9", "U+00BA", "U+00BB", "U+00BC", "U+00BD", "U+00BE", "U+00BF",
       "U+00C0", "U+00C1", "U+00C2", "U+00C3", "U+00C4", "U+00C5", "U+00C6", "U+00C7",
       "U+00C8", "U+00C9", "U+00CA", "U+00CB", "U+00CC", "U+00CD", "U+00CE", "U+00CF",
       "U+00D0", "U+00D1", "U+00D2", "U+00D3", "U+00D4", "U+00D5", "U+00D6", "U+00D7",
       "U+00D8", "U+00D9", "U+00DA", "U+00DB", "U+00DC", "U+00DD", "U+00DE", "U+00DF",
       "U+00E0", "U+00E1", "U+00E2", "U+00E3", "U+00E4", "U+00E5", "U+00E6", "U+00E7",
       "U+00E8", "U+00E9", "U+00EA", "U+00EB", "U+00EC", "U+00ED", "U+00EE", "U+00EF",
       "U+00F0", "U+00F1", "U+00F2", "U+00F3", "U+00F4", "U+00F5", "U+00F6", "U+00F7",
       "U+00F8", "U+00F9", "U+00FA", "U+00FB", "U+00FC", "U+00FD", "U+00FE", "U+00FF" >>

\* what errors=replace puts in place of a malformed byte
ReplacementChar == "U+FFFD"

HexDigits == <<"0", "1", "2", "3", "4", "5", "6", "7", "8", "9",
               "A", "B", "C", "D", "E", "F">>
LowerHexDigits == <<"0", "1", "2", "3", "4", "5", "6", "7", "8", "9",
                    "a", "b", "c", "d", "e", "f">>

IsHex(c) == \E i \in 1..16 : HexDigits[i] = c \/ LowerHexDigits[i] = c

HexVal(c) == (CHOOSE i \in 1..16 : HexDigits[i] = c \/ LowerHexDigits[i] = c) - 1

(***************************************************************************)
(* Names and paths.                                                        *)
(***************************************************************************)
\* s[i..], the rest of s from position i on
From(s, i) == SubSeq(s, i, Len(s))

\* a character is one of the 128 ASCII characters, and its code
AsciiChars == {Ascii[i] : i \in 1..128}

IsAscii(c) == c \in AsciiChars

AsciiCodes == [c \in AsciiChars |-> (CHOOSE i \in 1..128 : Ascii[i] = c) - 1]

ord(c) == AsciiCodes[c]

\* unquote_to_bytes of a run of ASCII characters: every %XX with two hex
\* digits becomes its byte, once, left to right; any other character
\* becomes its own code
RECURSIVE unquote_to_bytes(_)
unquote_to_bytes(s) ==
    IF s = <<>> THEN <<>>
    ELSE IF s[1] = "%" /\ Len(s) >= 3 /\ IsHex(s[2]) /\ IsHex(s[3])
         THEN <<16 * HexVal(s[2]) + HexVal(s[3])>> \o unquote_to_bytes(From(s, 4))
         ELSE <<ord(s[1])>> \o unquote_to_bytes(Tail(s))

\* bytes.decode('utf-8', errors=replace): an ASCII byte is its character,
\* a lead byte 0xC2 or 0xC3 with its continuation byte is the character
\* 0x80..0xFF, and a byte that is malformed where it stands is replaced.
\* The names of the model hold no lead byte of a longer sequence.
RECURSIVE DecodeReplace(_)
DecodeReplace(bytes) ==
    IF bytes = <<>> THEN <<>>
    ELSE IF bytes[1] < 128 THEN <<Ascii[bytes[1] + 1]>> \o DecodeReplace(Tail(bytes))
    ELSE IF bytes[1] \in {194, 195} /\ Len(bytes) >= 2 /\ bytes[2] \in 128..191
         THEN <<Latin1[(bytes[1] - 192) * 64 + (bytes[2] - 128) - 127]>>
              \o DecodeReplace(From(bytes, 3))
    ELSE <<ReplacementChar>> \o DecodeReplace(Tail(bytes))

\* the length of the longest prefix of s made of ASCII characters
RECURSIVE AsciiRun(_)
AsciiRun(s) ==
    IF s = <<>> \/ ~IsAscii(s[1]) THEN 0 ELSE 1 + AsciiRun(Tail(s))

\* the loop of urllib.parse.unquote: each run of ASCII characters is
\* percent-decoded to bytes and the bytes are decoded as UTF-8 with
\* errors=replace; the characters outside ASCII stay as they are
RECURSIVE UnquoteRuns(_)
UnquoteRuns(s) ==
    IF s = <<>> THEN <<>>
    ELSE LET n == AsciiRun(s)
         IN  IF n = 0 THEN <<s[1]>> \o UnquoteRuns(Tail(s))
             ELSE DecodeReplace(unquote_to_bytes(SubSeq(s, 1, n)))
                  \o UnquoteRuns(From(s, n + 1))

\* urllib.parse.unquote: a string without "%" is returned as it is
unquote(s) ==
    IF \A i \in 1..Len(s) : s[i] # "%" THEN s ELSE UnquoteRuns(s)

\* str.encode('utf-8') of one character
Utf8Bytes(c) ==
    IF IsAscii(c) THEN <<ord(c)>>
    ELSE IF c = ReplacementChar THEN <<239, 191, 189>>
    ELSE LET cp == (CHOOSE i \in 1..128 : Latin1[i] = c) + 127
         IN  <<192 + (cp \div 64), 128 + (cp % 64)>>

\* the characters urllib.parse.quote never escapes: letters, digits, _.-~
Unreserved(c) ==
    \/ IsAscii(c) /\ \/ ord(c) \in 48..57
                     \/ ord(c) \in 65..90
                     \/ ord(c) \in 97..122
    \/ c \in {"_", ".", "-", "~"}

\* %XX for each byte, in upper-case hex
RECURSIVE PercentEncode(_)
PercentEncode(bytes) ==
    IF bytes = <<>> THEN <<>>
    ELSE <<"%", HexDigits[(bytes[1] \div 16) + 1], HexDigits[(bytes[1] % 16) + 1]>>
         \o PercentEncode(Tail(bytes))

\* urllib.parse.quote(s, safe='')
RECURSIVE quote(_)
quote(s) ==
    IF s = <<>> THEN <<>>
    ELSE (IF Unreserved(s[1]) THEN <<s[1]>> ELSE PercentEncode(Utf8Bytes(s[1])))
         \o quote(Tail(s))

\* str.rfind(c), 1-based; 0 when c does not occur
RECURSIVE RFindFrom(_, _, _)
RFindFrom(s, c, i) ==
    IF i = 0 THEN 0 ELSE IF s[i] = c THEN i ELSE RFindFrom(s, c, i - 1)

RFind(s, c) == RFindFrom(s, c, Len(s))

\* the name as it came, directories and all
basename_Identity(p) == p

\* os.path.basename: what follows the last "/"
basename(p) == From(p, RFind(p, "/") + 1)

\* os.path.splitext: the extension starts at the last dot of the last
\* component, unless nothing but dots comes before it in that component
splitext(p) ==
    LET sepIndex == RFind(p, "/")
        dotIndex == RFind(p, ".")
    IN  IF dotIndex > sepIndex
           /\ \E i \in (sepIndex + 1)..(dotIndex - 1) : p[i] # "."
        THEN <<SubSeq(p, 1, dotIndex - 1), From(p, dotIndex)>>
        ELSE <<p, <<>> >>

\* str(n) for n >= 0: the decimal digits
RECURSIVE Str(_)
Str(n) ==
    IF n < 10 THEN <<HexDigits[n + 1]>>
    ELSE Str(n \div 10) \o <<HexDigits[(n % 10) + 1]>>

\* str.startswith
StartsWith(s, prefix) ==
    Len(s) >= Len(prefix) /\ SubSeq(s, 1, Len(prefix)) = prefix

\* os.path.join(a, b): b alone when it is absolute, else a, one "/", b
join(a, b) ==
    IF StartsWith(b, <<"/">>) THEN b
    ELSE IF a = <<>> \/ a[Len(a)] = "/" THEN a \o b
    ELSE a \o <<"/">> \o b

\* DOWNLOADS_FOLDER = str(Path.home() / "Downloads"), with the home
\* directory /h
DOWNLOADS_FOLDER == <<"/", "h", "/", "D", "o", "w", "n", "l", "o", "a", "d", "s">>

\* the components of a path, split at "/": comps are the components that
\* are complete, cur is the one being read
RECURSIVE SplitFrom(_, _, _, _)
SplitFrom(p, i, comps, cur) ==
    IF i > Len(p) THEN Append(comps, cur)
    ELSE IF p[i] = "/" THEN SplitFrom(p, i + 1, Append(comps, cur), <<>>)
    ELSE SplitFrom(p, i + 1, comps, Append(cur, p[i]))

Split(p) == SplitFrom(p, 1, <<>>, <<>>)

\* the directory an absolute path names, as the kernel walks it: empty
\* components and "." stay in place, ".." goes to the parent (the root is
\* its own parent).  No directory of the model is a symbolic link.
RECURSIVE Walk(_, _)
Walk(at, comps) ==
    IF comps = <<>> THEN at
    ELSE LET c == Head(comps)
         IN  IF c = <<>> \/ c = <<".">> THEN Walk(at, Tail(comps))
             ELSE IF c = <<".", ".">>
                  THEN Walk(IF at = <<>> THEN at ELSE SubSeq(at, 1, Len(at) - 1),
                            Tail(comps))
                  ELSE Walk(Append(at, c), Tail(comps))

Resolve(path) == Walk(<<>>, Split(path))

DownloadsDir == Resolve(DOWNLOADS_FOLDER)

\* a path names a direct child of the destination directory
IsChild(path) ==
    LET r == Resolve(path)
    IN  /\ Len(r) = Len(DownloadsDir) + 1
        /\ SubSeq(r, 1, Len(DownloadsDir)) = DownloadsDir

\* the name of that child
ChildName(path) == LET r == Resolve(path) IN r[Len(r)]

\* a path names the destination directory or a directory above it
IsAncestorOrSelf(path) ==
    LET r == Resolve(path)
    IN  Len(r) <= Len(DownloadsDir) /\ SubSeq(DownloadsDir, 1, Len(r)) = r

(***************************************************************************)
(* Byte strings, run-length encoded: <<b, n>> is n bytes of value b; runs  *)
(* are non-empty and neighbouring runs differ in their byte, so equal byte *)
(* strings have equal encodings.                                           *)
(***************************************************************************)
\* len(data)
RECURSIVE Size(_)
Size(data) == IF data = <<>> THEN 0 ELSE Head(data)[2] + Size(Tail(data))

\* data[:n]
RECURSIVE TakeBytes(_, _)
TakeBytes(data, n) ==
    IF n <= 0 \/ data = <<>> THEN <<>>
    ELSE IF Head(data)[2] <= n
         THEN <<Head(data)>> \o TakeBytes(Tail(data), n - Head(data)[2])
         ELSE << <<Head(data)[1], n>> >>

\* data[n:]
RECURSIVE DropBytes(_, _)
DropBytes(data, n) ==
    IF n <= 0 \/ data = <<>> THEN data
    ELSE IF Head(data)[2] <= n
         THEN DropBytes(Tail(data), n - Head(data)[2])
         ELSE << <<Head(data)[1], Head(data)[2] - n>> >> \o Tail(data)

\* a + b
Concat(a, b) ==
    IF a = <<>> THEN b
    ELSE IF b = <<>> THEN a
    ELSE IF a[Len(a)][1] = b[1][1]
         THEN SubSeq(a, 1, Len(a) - 1)
              \o << <<b[1][1], a[Len(a)][2] + b[1][2]>> >> \o Tail(b)
         ELSE a \o b

\* the bytes one by one (for the short bodies that are decoded as text)
RECURSIVE Expand(_)
Expand(data) ==
    IF data = <<>> THEN <<>>
    ELSE <<Head(data)[1]>>
         \o Expand(IF Head(data)[2] = 1 THEN Tail(data)
                   ELSE << <<Head(data)[1], Head(data)[2] - 1>> >> \o Tail(data))

\* bytes.decode('utf-8') of a byte sequence: <<TRUE, text>>, or
\* <<FALSE, <<>> >> where the codec raises UnicodeDecodeError.  ASCII bytes
\* and the two-byte sequences led by 0xC2 and 0xC3 are decoded; the text
\* bodies of the model hold no longer sequence.
RECURSIVE Utf8Decode(_)
Utf8Decode(bytes) ==
    IF bytes = <<>> THEN <<TRUE, <<>> >>
    ELSE IF bytes[1] < 128
         THEN LET rest == Utf8Decode(Tail(bytes))
              IN  IF rest[1] THEN <<TRUE, <<Ascii[bytes[1] + 1]>> \o rest[2]>>
                  ELSE rest
    ELSE IF bytes[1] \in {194, 195} /\ Len(bytes) >= 2 /\ bytes[2] \in 128..191
         THEN LET rest == Utf8Decode(From(bytes, 3))
                  cp   == (bytes[1] - 192) * 64 + (bytes[2] - 128)
              IN  IF rest[1] THEN <<TRUE, <<Latin1[cp - 127]>> \o rest[2]>>
                  ELSE rest
    ELSE <<FALSE, <<>> >>

(***************************************************************************)
(* The module-level functions get_file_icon and format_file_size.          *)
(***************************************************************************)
\* FILE_ICONS, each emoji written as its code points; the PDF icon and the
\* default icon are the same emoji
FILE_ICONS ==
    [image |-> <<"U+1F5BC", "U+FE0F">>, video |-> <<"U+1F3AC">>,
     audio |-> <<"U+1F3B5">>, pdf |-> <<"U+1F4C4">>, document |-> <<"U+1F4DD">>,
     archive |-> <<"U+1F4E6">>, code |-> <<"U+1F4BB">>, default |-> <<"U+1F4C4">>]

\* the emoji get_file_icon returns as literals: in progress, spreadsheet,
\* Word document, Markdown, text
InProgressIcon == <<"U+23F3">>
SpreadsheetIcon == <<"U+1F4CA">>
WordIcon == <<"U+1F4D8">>
MarkdownIcon == <<"U+1F4CB">>
TextIcon == <<"U+1F4DD">>

\* the extension lists of get_file_icon
InProgressExts ==
    { <<"c", "r", "d", "o", "w", "n", "l", "o", "a", "d">>,
      <<"p", "a", "r", "t">>, <<"t", "m", "p">>,
      <<"d", "o", "w", "n", "l", "o", "a", "d">>,
      <<"p", "a", "r", "t", "i", "a", "l">> }

ImageExts ==
    { <<"j", "p", "g">>, <<"j", "p", "e", "g">>, <<"p", "n", "g">>,
      <<"g", "i", "f">>, <<"w", "e", "b", "p">>, <<"s", "v", "g">>,
      <<"b", "m", "p">>, <<"i", "c", "o">> }

VideoExts ==
    { <<"m", "p", "4">>, <<"m", "o", "v">>, <<"a", "v", "i">>,
      <<"m", "k", "v">>, <<"w", "e", "b", "m">>, <<"m", "4", "v">> }

AudioExts ==
    { <<"m", "p", "3">>, <<"w", "a", "v">>, <<"f", "l", "a", "c">>,
      <<"a", "a", "c">>, <<"m", "4", "a">>, <<"o", "g", "g">> }

DocumentExts ==
    { <<"d", "o", "c">>, <<"d", "o", "c", "x">>, <<"t", "x", "t">>,
      <<"r", "t", "f">>, <<"o", "d", "t">>, <<"m", "d">>, <<"c", "s", "v">>,
      <<"x", "l", "s", "x">>, <<"x", "l", "s">> }

ArchiveExts ==
    { <<"z", "i", "p">>, <<"r", "a", "r">>, <<"7", "z">>, <<"t", "a", "r">>,
      <<"g", "z">>, <<"b", "z", "2">> }

CodeExts ==
    { <<"p", "y">>, <<"j", "s">>, <<"t", "s">>, <<"t", "s", "x">>,
      <<"j", "s", "x">>, <<"h", "t", "m", "l">>, <<"c", "s", "s">>,
      <<"j", "s", "o", "n">>, <<"x", "m", "l">>, <<"y", "a", "m", "l">>,
      <<"y", "m", "l">>, <<"s", "h">>, <<"b", "a", "t">>,
      <<"j", "a", "v", "a">>, <<"c">>, <<"c", "p", "p">>, <<"h">>,
      <<"h", "p", "p">>, <<"g", "o">>, <<"r", "s">>, <<"r", "b">>,
      <<"p", "h", "p">>, <<"s", "q", "l">>, <<"s", "w", "i", "f", "t">>,
      <<"k", "t">>, <<"k", "t", "s">>, <<"t", "o", "m", "l">>,
      <<"i", "n", "i">>, <<"c", "o", "n", "f">>, <<"v", "u", "e">>,
      <<"s", "v", "e", "l", "t", "e">>, <<"s", "c", "s", "s">>,
      <<"s", "a", "s", "s">>, <<"l", "e", "s", "s">>, <<"r">>,
      <<"l", "u", "a">>, <<"p", "l">>, <<"p", "m">>, <<"p", "s", "1">>,
      <<"p", "s", "m", "1">>,
      <<"d", "o", "c", "k", "e", "r", "f", "i", "l", "e">>,
      <<"m", "a", "k", "e", "f", "i", "l", "e">> }

\* str.lower of one character: A-Z, and the capital letters of
\* 0xC0..0xDE (0xD7, the multiplication sign, is none), move up by 32
LowerChar(c) ==
    IF IsAscii(c)
    THEN (IF ord(c) \in 65..90 THEN Ascii[ord(c) + 33] ELSE c)
    ELSE IF \E i \in (65..95) \ {88} : Latin1[i] = c
         THEN Latin1[(CHOOSE i \in 65..95 : Latin1[i] = c) + 32]
         ELSE c

\* the name as it is, capitals and all
lower_Identity(s) == s

\* str.lower
lower(s) == [i \in 1..Len(s) |-> LowerChar(s[i])]

\* get_file_icon(filename)
get_file_icon(filename) ==
    LET name == lower(filename)
        dot  == RFind(name, ".")
        ext  == IF dot = 0 THEN <<>> ELSE From(name, dot + 1)
    IN  IF ext \in InProgressExts THEN InProgressIcon
        ELSE IF ext \in ImageExts THEN FILE_ICONS.image
        ELSE IF ext \in VideoExts THEN FILE_ICONS.video
        ELSE IF ext \in AudioExts THEN FILE_ICONS.audio
        ELSE IF ext = <<"p", "d", "f">> THEN FILE_ICONS.pdf
        ELSE IF ext \in DocumentExts
             THEN (IF ext \in {<<"c", "s", "v">>, <<"x", "l", "s", "x">>, <<"x", "l", "s">>}
                   THEN SpreadsheetIcon
                   ELSE IF ext \in {<<"d", "o", "c">>, <<"d", "o", "c", "x">>} THEN WordIcon
                   ELSE IF ext = <<"m", "d">> THEN MarkdownIcon
                   ELSE IF ext = <<"t", "x", "t">> THEN TextIcon
                   ELSE FILE_ICONS.document)
        ELSE IF ext \in ArchiveExts THEN FILE_ICONS.archive
        ELSE IF ext \in CodeExts THEN FILE_ICONS.code
        ELSE FILE_ICONS.default

\* A size in bytes is written in base 1024, least significant digit first
\* (<<0, 2>> is 2048), so that sizes up to 2^53, which a float holds
\* exactly, stay within the integers of the model.
Base == 1024

\* the digits of n
RECURSIVE ToBase1024(_)
ToBase1024(n) ==
    IF n < Base THEN <<n>> ELSE <<n % Base>> \o ToBase1024(n \div Base)

\* the number the digits d stand for
RECURSIVE FromBase1024(_)
FromBase1024(d) ==
    IF d = <<>> THEN 0 ELSE d[1] + Base * FromBase1024(Tail(d))

\* ten times the fraction 0.f (f its digits, least significant first):
\* the digits of the product's fraction, and last its integer part
RECURSIVE TimesTen(_, _)
TimesTen(f, carry) ==
    IF f = <<>> THEN <<carry>>
    ELSE <<(10 * f[1] + carry) % Base>> \o TimesTen(Tail(f), (10 * f[1] + carry) \div Base)

\* a format that cuts the second decimal off
OneDecimal_Truncated(whole, frac) ==
    LET product == TimesTen(frac, 0)
        tenths  == 10 * FromBase1024(whole) + product[Len(product)]
    IN  Str(tenths \div 10) \o <<".">> \o Str(tenths % 10)

\* f"{size_bytes:.1f}" of the float whole.frac: the decimal number with one
\* decimal place nearest to it, the even one of two equally near
OneDecimal(whole, frac) ==
    LET product == TimesTen(frac, 0)
        n       == Len(frac)
        rest    == SubSeq(product, 1, n)
        above   == n > 0 /\ \/ rest[n] > Base \div 2
                            \/ rest[n] = Base \div 2 /\ \E i \in 1..(n - 1) : rest[i] # 0
        half    == n > 0 /\ rest[n] = Base \div 2 /\ \A i \in 1..(n - 1) : rest[i] = 0
        down    == 10 * FromBase1024(whole) + product[n + 1]
        tenths  == IF above \/ (half /\ down % 2 = 1) THEN down + 1 ELSE down
    IN  Str(tenths \div 10) \o <<".">> \o Str(tenths % 10)

\* the units of the for loop
Units == << <<"B">>, <<"K", "B">>, <<"M", "B">>, <<"G", "B">> >>

\* the for loop of format_file_size from unit i on, size_bytes being
\* whole.frac: each turn that does not return divides by 1024, which moves
\* the lowest digit of whole to the top of frac
RECURSIVE FormatLoop(_, _, _)
FormatLoop(whole, frac, i) ==
    IF i > Len(Units) THEN OneDecimal(whole, frac) \o <<" ", "T", "B">>
    ELSE IF Len(whole) <= 1
         THEN (IF i = 1 THEN Str(FromBase1024(whole)) ELSE OneDecimal(whole, frac))
              \o <<" ">> \o Units[i]
         ELSE FormatLoop(Tail(whole), Append(frac, whole[1]), i + 1)

\* format_file_size(size_bytes)
format_file_size(size_bytes) == FormatLoop(size_bytes, <<>>, 1)

\* the error returned on Linux after both try blocks, whatever ended them
InstallHint == "Install xclip: sudo apt install xclip"

\* copy_image_to_clipboard(image_path), as a function of what it finds:
\* SYSTEM; image, "ok" or "absent" as open(image_path, 'rb') succeeds or
\* raises FileNotFoundError; first and second, what the first and the second
\* subprocess.run would do: "ok", exit code 0; "failed", another exit code;
\* "missing", FileNotFoundError because the program is not installed.  The
\* result is the pair returned and the programs subprocess.run was called
\* with.
copy_image_to_clipboard(SYSTEM, image, first, second) ==
    LET Result(success, error, run) ==
            [success |-> success, error |-> error, run |-> run]
    IN  IF SYSTEM = "Darwin"
        THEN IF first = "missing"
             THEN Result(FALSE, "[Errno 2] No such file or directory: 'osascript'",
                         <<"osascript">>)
             ELSE IF first = "ok" THEN Result(TRUE, "None", <<"osascript">>)
             ELSE IF second = "missing"
             THEN Result(FALSE, "[Errno 2] No such file or directory: 'osascript'",
                         <<"osascript", "osascript">>)
             ELSE IF second = "ok"
             THEN Result(TRUE, "None", <<"osascript", "osascript">>)
             ELSE Result(FALSE, "stderr of osascript", <<"osascript", "osascript">>)
        ELSE IF SYSTEM = "Windows"
        THEN IF first = "missing"
             THEN Result(FALSE, "[Errno 2] No such file or directory: 'powershell'",
                         <<"powershell">>)
             ELSE IF first = "ok" THEN Result(TRUE, "None", <<"powershell">>)
             ELSE Result(FALSE, "stderr of powershell", <<"powershell">>)
        ELSE IF SYSTEM = "Linux"
        THEN IF image = "absent"
             THEN Result(FALSE, InstallHint, <<>>)
             ELSE IF first = "ok" THEN Result(TRUE, "None", <<"xclip">>)
             ELSE IF second = "ok" THEN Result(TRUE, "None", <<"xclip", "xsel">>)
             ELSE Result(FALSE, InstallHint, <<"xclip", "xsel">>)
        ELSE Result(FALSE, "Unsupported OS: " \o SYSTEM, <<>>)

(***************************************************************************)
(* State.                                                                  *)
(***************************************************************************)
VARIABLES
    synced_text,   \* the global synced_text
    fs,            \* the file system: resolved path -> entry, for every path
                   \* that names something other than a directory above the
                   \* destination directory
    now,           \* the clock, in whole seconds
    req,           \* the request handled last
    resp,          \* the response to it
    io,            \* the file accesses of that handler: the files opened, the
                   \* bytes written to each, the chunks read, the errors printed
    pre,           \* fs and synced_text as they were before that request
    posted,        \* the text body of the last POST /text answered 200
    stored,        \* the uploads answered 200 so far: name reported, body read
    uploads,       \* how many uploads have written to the directory
    call,          \* a call of a module-level function: the function, its
                   \* argument and the value it returned
    frame          \* the local variables of a handler that runs step by step
                   \* beside another process: where it is (pc), file_path,
                   \* base, ext, counter and file_data of the upload, file_size
                   \* of the download, and whether the other process has
                   \* written since the handler began

vars == <<synced_text, fs, now, req, resp, io, pre, posted, stored, uploads, call, frame>>

(***************************************************************************)
(* The file system.  An entry is a regular file (or a symbolic link to     *)
(* one), a directory, or a dangling symbolic link; data is a file's        *)
(* content and mtime its st_mtime.                                         *)
(***************************************************************************)
File(data, mtime) == [kind |-> "file", data |-> data, mtime |-> mtime]
Directory == [kind |-> "dir", data |-> <<>>, mtime |-> 0]
Dangling == [kind |-> "dangling", data |-> <<>>, mtime |-> 0]
Absent == [kind |-> "absent", data |-> <<>>, mtime |-> 0]

\* os.stat(path), following symbolic links
Stat(f, path) ==
    IF IsAncestorOrSelf(path) THEN Directory
    ELSE IF Resolve(path) \in DOMAIN f THEN f[Resolve(path)]
    ELSE Absent

\* os.path.exists: False for a dangling symbolic link
exists(f, path) == Stat(f, path).kind \in {"file", "dir"}

\* no check of the kind
isfile_Always(f, path) == TRUE

\* os.path.isfile
isfile(f, path) == Stat(f, path).kind = "file"

\* os.path.getsize
getsize(f, path) == Size(Stat(f, path).data)

\* an open that creates the file and a write that stores nothing
WriteFile_Empty(f, path, data, t) ==
    [q \in DOMAIN f \cup {Resolve(path)} |->
        IF q = Resolve(path) THEN [kind |-> "file", data |-> <<>>, mtime |-> t] ELSE f[q]]

\* the file system after open(path, 'wb') and f.write(data) at time t: the
\* file is created, or truncated and rewritten; a dangling link is written
\* through
WriteFile(f, path, data, t) ==
    [q \in DOMAIN f \cup {Resolve(path)} |->
        IF q = Resolve(path) THEN File(data, t) ELSE f[q]]

\* the names in the destination directory
Children(f) ==
    {q[Len(q)] : q \in {r \in DOMAIN f : /\ Len(r) = Len(DownloadsDir) + 1
                                         /\ SubSeq(r, 1, Len(DownloadsDir)) = DownloadsDir}}

(***************************************************************************)
(* Requests and responses.                                                 *)
(***************************************************************************)
\* self.headers.get(name, default)
Header(r, name, default) ==
    IF name \in DOMAIN r.headers THEN r.headers[name] ELSE default

\* int(s) of a header value: its value when it is a string of decimal
\* digits, <<FALSE, 0>> where int raises ValueError.  The header values of
\* the model carry no sign, blank or underscore.
RECURSIVE DigitsValue(_)
DigitsValue(s) ==
    IF s = <<>> THEN 0 ELSE 10 * DigitsValue(SubSeq(s, 1, Len(s) - 1)) + HexVal(s[Len(s)])

ParseInt(s) ==
    IF s # <<>> /\ \A i \in 1..Len(s) : \E d \in 1..10 : HexDigits[d] = s[i]
    THEN <<TRUE, DigitsValue(s)>>
    ELSE <<FALSE, 0>>

\* the check of the length left to the header alone: an absent header
\* counts as one byte
content_length_DefaultOne(r) == ParseInt(Header(r, "Content-Length", <<"1">>))

\* a length that counts as 0 when it is no number
content_length_Lenient(r) ==
    LET parsed == ParseInt(Header(r, "Content-Length", <<"0">>))
    IN  IF parsed[1] THEN parsed ELSE <<TRUE, 0>>

\* int(self.headers.get('Content-Length', 0))
content_length(r) == ParseInt(Header(r, "Content-Length", <<"0">>))

\* self.rfile.read(n): n bytes, or what there is when the client sends
\* fewer and stops: the first n bytes of the body on the connection
ReadBody(r, n) == TakeBytes(r.body, n)

NoHeaders == [h \in {} |-> <<>>]

\* the headers of a JSON response
JsonHeaders ==
    [h \in {"Content-type", "Access-Control-Allow-Origin"} |->
        IF h = "Content-type" THEN "application/json" ELSE "*"]

\* send_response(200), the JSON headers, and one JSON document as the body
JsonResponse(doc) ==
    [statuses |-> <<200>>, headers |-> JsonHeaders, json |-> <<doc>>,
     chunks |-> <<>>, message |-> ""]

\* send_error(code, message): the status and the error page, which carries
\* no Access-Control-Allow-Origin header
ErrorResponse(code, message) ==
    [statuses |-> <<code>>, headers |-> NoHeaders, json |-> <<>>,
     chunks |-> <<>>, message |-> message]

\* what a handler did besides answering: the paths it passed to open(), what
\* its calls of f.read returned, and the errors it printed
NoIo == [opened |-> <<>>, written |-> <<>>, reads |-> <<>>, printed |-> <<>>]

(***************************************************************************)
(* Upload: do_POST on any path but /text and /clipboard.                   *)
(***************************************************************************)
PhoneFilePrefix == <<"p", "h", "o", "n", "e", "_", "f", "i", "l", "e", "_">>

\* datetime.now().strftime("%Y%m%d_%H%M%S"): one string per second, made of
\* digits; the model writes the second's number
Timestamp(t) == Str(t)

\* the name the upload asks for: the decoded X-Filename header, or a name
\* made of the time when the header is absent or empty; then its basename
UploadFilename(r, t) ==
    LET filename == Header(r, "X-Filename", <<>>)
    IN  basename(IF filename # <<>> THEN unquote(filename)
                 ELSE PhoneFilePrefix \o Timestamp(t))

\* an if in place of the while: one probe only
Deduplicate_Once(f, file_path, base, ext, counter) ==
    IF exists(f, file_path)
    THEN join(DOWNLOADS_FOLDER, base \o <<"_">> \o Str(counter) \o ext)
    ELSE file_path

\* no probe at all
Deduplicate_Never(f, file_path, base, ext, counter) == file_path

\* the while loop that handles duplicate filenames: base_1.ext, base_2.ext,
\* ... until the path does not exist
RECURSIVE Deduplicate(_, _, _, _, _)
Deduplicate(f, file_path, base, ext, counter) ==
    IF exists(f, file_path)
    THEN Deduplicate(f, join(DOWNLOADS_FOLDER, base \o <<"_">> \o Str(counter) \o ext),
                     base, ext, counter + 1)
    ELSE file_path

\* the path the upload writes to
UploadPath(f, r, t) ==
    LET filename == UploadFilename(r, t)
        parts    == splitext(filename)
    IN  Deduplicate(f, join(DOWNLOADS_FOLDER, filename), parts[1], parts[2], 1)

\* the upload gets as far as opening its target
UploadWrites(r) == content_length(r)[1] /\ content_length(r)[2] # 0

\* an upload that removes its file when the write raises
UploadFailed_RolledBack(f, path, data, t) == f

\* the file system after f.write raised with data in the file, at time t:
\* the except clause answers and removes nothing
UploadFailed(f, path, data, t) == WriteFile(f, path, data, t)

\* a server that takes a request whenever one arrives
Idle_Always == TRUE

\* the server waits in serve_forever for the next request: no handler runs
Idle == req.method = ""

\* do_POST, upload branch.  fault is what the file system does to the
\* handler: "none"; "open", open(file_path, 'wb') raises OSError; "write",
\* f.write raises OSError after k bytes reached the file.
Upload(r, fault, k) ==
    LET cl        == content_length(r)
        file_data == ReadBody(r, cl[2])
        file_path == UploadPath(fs, r, now)
        saved_name == basename(file_path)
        target    == [opened |-> <<[mode |-> "wb", path |-> file_path]>>,
                      written |-> <<file_data>>, reads |-> <<>>,
                      printed |-> <<>>]
        failed    == [target EXCEPT !.printed = <<"Upload error">>]
    IN  /\ Idle
        /\ UploadWrites(r) /\ fault \notin {"read", "open"} => uploads < MaxUploads
        /\ req' = r
        /\ pre' = [fs |-> fs, synced_text |-> synced_text]
        /\ UNCHANGED <<synced_text, now, call, frame, posted>>
        /\ IF ~cl[1]
           THEN /\ resp' = ErrorResponse(500, "ValueError")
                /\ io' = [NoIo EXCEPT !.printed = <<"Upload error">>]
                /\ UNCHANGED <<fs, stored, uploads>>
           ELSE IF cl[2] = 0
           THEN /\ resp' = ErrorResponse(400, "No file data received")
                /\ io' = NoIo
                /\ UNCHANGED <<fs, stored, uploads>>
           ELSE IF fault = "read"
           THEN /\ resp' = ErrorResponse(500, "OSError")
                /\ io' = [NoIo EXCEPT !.printed = <<"Upload error">>]
                /\ UNCHANGED <<fs, stored, uploads>>
           ELSE IF fault = "open"
           THEN /\ resp' = ErrorResponse(500, "OSError")
                /\ io' = [failed EXCEPT !.written = <<>>]
                /\ UNCHANGED <<fs, stored, uploads>>
           ELSE IF fault = "write"
           THEN /\ resp' = ErrorResponse(500, "OSError")
                /\ io' = [failed EXCEPT !.written = <<TakeBytes(file_data, k)>>]
                /\ fs' = UploadFailed(fs, file_path, TakeBytes(file_data, k), now)
                /\ uploads' = uploads + 1
                /\ UNCHANGED stored
           ELSE /\ resp' = JsonResponse([success |-> TRUE, filename |-> saved_name,
                                         size |-> Size(file_data)])
                /\ io' = target
                /\ fs' = WriteFile(fs, file_path, file_data, now)
                /\ uploads' = uploads + 1
                /\ stored' = Append(stored, [filename |-> saved_name, data |-> file_data])

(***************************************************************************)
(* Text sync: do_POST on /text, and serve_synced_text.                     *)
(***************************************************************************)
\* the texts a client sends, each with its UTF-8 encoding: h followed by
\* an e with an acute accent (two characters, three bytes), and ""
Texts ==
    { [text |-> <<"h", "U+00E9">>, body |-> << <<104, 1>>, <<195, 1>>, <<169, 1>> >>],
      [text |-> <<>>, body |-> <<>>] }

\* a body that is not UTF-8
InvalidUtf8 == << <<255, 1>> >>

\* the text a client sent as the body of POST /text
SentText(body) == (CHOOSE t \in Texts : t.body = body).text

\* do_POST, branch path == '/text'
PostText(r) ==
    LET cl      == content_length(r)
        decoded == Utf8Decode(Expand(ReadBody(r, cl[2])))
    IN  /\ Idle
        /\ req' = r
        /\ pre' = [fs |-> fs, synced_text |-> synced_text]
        /\ UNCHANGED <<fs, now, call, frame, stored, uploads>>
        /\ IF ~cl[1]
           THEN /\ resp' = ErrorResponse(500, "ValueError")
                /\ io' = [NoIo EXCEPT !.printed = <<"Text sync error">>]
                /\ UNCHANGED <<synced_text, posted>>
           ELSE IF cl[2] > 0 /\ ~decoded[1]
           THEN /\ resp' = ErrorResponse(500, "UnicodeDecodeError")
                /\ io' = [NoIo EXCEPT !.printed = <<"Text sync error">>]
                /\ UNCHANGED <<synced_text, posted>>
           ELSE /\ synced_text' = IF cl[2] > 0 THEN decoded[2] ELSE synced_text
                /\ resp' = JsonResponse([success |-> TRUE, length |-> Len(synced_text')])
                /\ io' = NoIo
                /\ posted' = SentText(r.body)

\* a GET /text that hands the text over and forgets it
GetText_Clears(r) ==
    /\ Idle
    /\ req' = r
    /\ pre' = [fs |-> fs, synced_text |-> synced_text]
    /\ io' = NoIo
    /\ resp' = JsonResponse([text |-> synced_text])
    /\ synced_text' = <<>>
    /\ UNCHANGED <<fs, now, call, frame, posted, stored, uploads>>

\* serve_synced_text
GetText(r) ==
    /\ Idle
    /\ req' = r
    /\ pre' = [fs |-> fs, synced_text |-> synced_text]
    /\ io' = NoIo
    /\ resp' = JsonResponse([text |-> synced_text])
    /\ UNCHANGED <<synced_text, fs, now, call, frame, posted, stored, uploads>>

(***************************************************************************)
(* The directory lister: get_files_list and serve_files_list.              *)
(***************************************************************************)
\* the os.DirEntry that os.scandir(DOWNLOADS_FOLDER) yields for a name
DirEntry(f, name) == f[Append(DownloadsDir, name)]

\* the dictionary of one listed file (size and modification time)
FileInfo(f, name) ==
    [name |-> name, size |-> Size(DirEntry(f, name).data),
     size_formatted |-> format_file_size(ToBase1024(Size(DirEntry(f, name).data))),
     modified |-> DirEntry(f, name).mtime,
     icon |-> get_file_icon(name)]

\* list.sort(key=modified, reverse=True), one element at a time: x goes
\* behind every element that is at least as new, so equal keys keep the
\* order they came in
InsertNewestFirst(sorted, x) ==
    LET k == Cardinality({i \in 1..Len(sorted) : sorted[i].modified >= x.modified})
    IN  SubSeq(sorted, 1, k) \o <<x>> \o SubSeq(sorted, k + 1, Len(sorted))

RECURSIVE SortNewestFirst(_, _)
SortNewestFirst(sorted, rest) ==
    IF rest = <<>> THEN sorted
    ELSE SortNewestFirst(InsertNewestFirst(sorted, Head(rest)), Tail(rest))

\* the for loop without the test of the leading dot
RECURSIVE Scan_ListsHidden(_, _, _, _, _)
Scan_ListsHidden(f, order, i, failAt, files) ==
    IF i > Len(order) THEN [files |-> files, raised |-> FALSE]
    ELSE IF DirEntry(f, order[i]).kind # "file"
         THEN Scan_ListsHidden(f, order, i + 1, failAt, files)
    ELSE IF i = failAt THEN [files |-> files, raised |-> TRUE]
    ELSE Scan_ListsHidden(f, order, i + 1, failAt, Append(files, FileInfo(f, order[i])))

\* a lister without the test of entry.is_file()
RECURSIVE Scan_ListsDirectories(_, _, _, _, _)
Scan_ListsDirectories(f, order, i, failAt, files) ==
    IF i > Len(order) THEN [files |-> files, raised |-> FALSE]
    ELSE IF StartsWith(order[i], <<".">>)
         THEN Scan_ListsDirectories(f, order, i + 1, failAt, files)
    ELSE IF i = failAt THEN [files |-> files, raised |-> TRUE]
    ELSE Scan_ListsDirectories(f, order, i + 1, failAt,
                               Append(files, FileInfo(f, order[i])))

\* the for loop over os.scandir from entry i on: hidden names are skipped,
\* regular files are appended.  Entry failAt raises OSError from
\* entry.stat().
RECURSIVE Scan(_, _, _, _, _)
Scan(f, order, i, failAt, files) ==
    IF i > Len(order) THEN [files |-> files, raised |-> FALSE]
    ELSE IF StartsWith(order[i], <<".">>) THEN Scan(f, order, i + 1, failAt, files)
    ELSE IF DirEntry(f, order[i]).kind # "file" THEN Scan(f, order, i + 1, failAt, files)
    ELSE IF i = failAt THEN [files |-> files, raised |-> TRUE]
    ELSE Scan(f, order, i + 1, failAt, Append(files, FileInfo(f, order[i])))

\* get_files_list: order is the order in which os.scandir yields the
\* names; failAt = 0 when os.scandir itself raises.  The except clause
\* returns the list as it stands.
get_files_list(f, order, failAt) ==
    IF failAt = 0 THEN [files |-> <<>>, raised |-> TRUE]
    ELSE LET scan == Scan(f, order, 1, failAt, <<>>)
         IN  IF scan.raised THEN scan
             ELSE [files |-> SortNewestFirst(<<>>, scan.files), raised |-> FALSE]

\* every order os.scandir may yield the names of S in
Orders(S) ==
    {o \in [1..Cardinality(S) -> S] : \A i, j \in 1..Cardinality(S) : i # j => o[i] # o[j]}

\* where the scan of order may fail: at os.scandir (0), at the stat of a
\* listed file, or nowhere (Len(order) + 1)
FailPoints(f, order) ==
    {0, Len(order) + 1}
    \cup {i \in 1..Len(order) : /\ ~StartsWith(order[i], <<".">>)
                                /\ DirEntry(f, order[i]).kind = "file"}

\* serve_files_list
GetFiles(r, order, failAt) ==
    /\ Idle
    /\ req' = r
    /\ pre' = [fs |-> fs, synced_text |-> synced_text]
    /\ io' = [NoIo EXCEPT !.printed = IF get_files_list(fs, order, failAt).raised
                                      THEN <<"Error listing files">> ELSE <<>>]
    /\ resp' = JsonResponse(get_files_list(fs, order, failAt).files)
    /\ UNCHANGED <<synced_text, fs, now, call, frame, posted, stored, uploads>>

(***************************************************************************)
(* Download: serve_file_download.                                          *)
(***************************************************************************)
\* f.read(65536) reads this many bytes at most
ChunkSize == 65536

\* a loop that stops after one chunk
ReadLoop_OneChunk(data, pos) ==
    LET chunk == TakeBytes(DropBytes(data, pos), ChunkSize)
    IN  IF chunk = <<>> THEN << <<>> >> ELSE <<chunk, <<>> >>

\* what the calls of f.read(65536) return from position pos on, up to and
\* with the first empty one
RECURSIVE ReadLoop(_, _)
ReadLoop(data, pos) ==
    LET chunk == TakeBytes(DropBytes(data, pos), ChunkSize)
    IN  IF chunk = <<>> THEN << <<>> >>
        ELSE <<chunk>> \o ReadLoop(data, pos + Size(chunk))

\* every name taken for ASCII
IsAsciiName_Always(filename) == TRUE

\* str.encode('ascii') raises for none of the characters of the name
IsAsciiName(filename) == \A i \in 1..Len(filename) : IsAscii(filename[i])

\* the Content-Disposition of a download: the quoted form for a name that
\* str.encode('ascii') takes, the RFC 5987 form for any other
content_disposition(filename) ==
    IF IsAsciiName(filename)
    THEN <<"a", "t", "t", "a", "c", "h", "m", "e", "n", "t", ";", " ",
           "f", "i", "l", "e", "n", "a", "m", "e", "=", "<22>">>
         \o filename \o <<"<22>">>
    ELSE <<"a", "t", "t", "a", "c", "h", "m", "e", "n", "t", ";", " ",
           "f", "i", "l", "e", "n", "a", "m", "e", "*", "=",
           "U", "T", "F", "-", "8", "'", "'">>
         \o quote(filename)

\* the headers of a download (Content-Type, Cache-Control and the other
\* Access-Control headers are left out)
DownloadHeaders(file_size, filename) ==
    [h \in {"Content-Length", "Content-Disposition", "Access-Control-Allow-Origin"} |->
        IF h = "Content-Length" THEN Str(file_size)
        ELSE IF h = "Content-Disposition" THEN content_disposition(filename)
        ELSE "*"]

\* what may go wrong with a file that passed the test of line 353:
\* nothing; os.path.getsize raises; open raises; the k-th f.read raises
DownloadFaults(f, name) ==
    LET file_path == join(DOWNLOADS_FOLDER, basename(name))
        entry     == Stat(f, file_path)
    IN  IF entry.kind # "file" THEN {<<"none", 0>>}
        ELSE {<<"none", 0>>, <<"getsize", 0>>, <<"open", 0>>}
             \cup {<<"read", k>> : k \in 1..Len(ReadLoop(entry.data, 0))}

\* serve_file_download(filename)
serve_file_download(r, name, fault, k) ==
    LET filename  == basename(name)
        file_path == join(DOWNLOADS_FOLDER, filename)
        entry     == Stat(fs, file_path)
        reads     == ReadLoop(entry.data, 0)
        source    == <<[mode |-> "rb", path |-> file_path]>>
        headers   == DownloadHeaders(getsize(fs, file_path), filename)
    IN  /\ Idle
        /\ req' = r
        /\ pre' = [fs |-> fs, synced_text |-> synced_text]
        /\ UNCHANGED <<synced_text, fs, now, call, frame, posted, stored, uploads>>
        /\ IF ~exists(fs, file_path) \/ ~isfile(fs, file_path)
           THEN /\ resp' = ErrorResponse(404, "File not found")
                /\ io' = NoIo
           ELSE IF fault = "getsize"
           THEN \* nothing was sent yet: the except clause sends the one status
                /\ resp' = ErrorResponse(500, "OSError")
                /\ io' = [NoIo EXCEPT !.printed = <<"Download error">>]
           ELSE IF fault = "open" \/ entry.kind # "file"
           THEN \* open(file_path, 'rb') raises after the headers went out
                /\ resp' = [statuses |-> <<200, 500>>, headers |-> headers,
                            json |-> <<>>, chunks |-> <<>>, message |-> "OSError"]
                /\ io' = [opened |-> source, written |-> <<>>, reads |-> <<>>,
                          printed |-> <<"Download error">>]
           ELSE IF fault = "read"
           THEN \* the k-th f.read raises: k - 1 chunks went out before it
                /\ resp' = [statuses |-> <<200, 500>>, headers |-> headers,
                            json |-> <<>>, chunks |-> SubSeq(reads, 1, k - 1),
                            message |-> "OSError"]
                /\ io' = [opened |-> source, written |-> <<>>, reads |-> SubSeq(reads, 1, k - 1),
                          printed |-> <<"Download error">>]
           ELSE /\ resp' = [statuses |-> <<200>>, headers |-> headers,
                            json |-> <<>>,
                            chunks |-> SubSeq(reads, 1, Len(reads) - 1),
                            message |-> ""]
                /\ io' = [opened |-> source, written |-> <<>>, reads |-> reads,
                          printed |-> <<>>]

(***************************************************************************)
(* do_GET.                                                                 *)
(***************************************************************************)
FilesPath == <<"/", "f", "i", "l", "e", "s">>
TextPath == <<"/", "t", "e", "x", "t">>
\* a clipboard branch under another path
ClipboardPath_Other == <<"/", "c", "l", "i", "p">>

ClipboardPath == <<"/", "c", "l", "i", "p", "b", "o", "a", "r", "d">>
DownloadPrefix == <<"/", "d", "o", "w", "n", "l", "o", "a", "d", "/">>

\* serve_html: the page, with no Access-Control-Allow-Origin header
serve_html(r) ==
    /\ Idle
    /\ req' = r
    /\ pre' = [fs |-> fs, synced_text |-> synced_text]
    /\ io' = NoIo
    /\ resp' = [statuses |-> <<200>>,
                headers |-> [h \in {"Content-type"} |-> "text/html; charset=utf-8"],
                json |-> <<>>, chunks |-> <<>>, message |-> ""]
    /\ UNCHANGED <<synced_text, fs, now, call, frame, posted, stored, uploads>>

\* the page served for a path that is no endpoint
NotFound_ServesPage(r) == serve_html(r)

\* the else branch of do_GET: send_error(404)
NotFound(r) ==
    /\ Idle
    /\ req' = r
    /\ pre' = [fs |-> fs, synced_text |-> synced_text]
    /\ io' = NoIo
    /\ resp' = ErrorResponse(404, "")
    /\ UNCHANGED <<synced_text, fs, now, call, frame, posted, stored, uploads>>

\* do_GET: the request target of the model has no query and no fragment,
\* so urlparse(self.path).path is the whole of it
do_GET(r) ==
    /\ Idle
    /\ IF r.path = <<"/">> THEN serve_html(r)
       ELSE IF r.path = FilesPath
       THEN \E order \in Orders(Children(fs)) :
               \E failAt \in FailPoints(fs, order) : GetFiles(r, order, failAt)
       ELSE IF r.path = TextPath THEN GetText(r)
       ELSE IF StartsWith(r.path, DownloadPrefix)
       THEN LET filename == unquote(From(r.path, 11))
            IN  \E fault \in DownloadFaults(fs, filename) :
                   serve_file_download(r, filename, fault[1], fault[2])
       ELSE NotFound(r)

\* tempfile.gettempdir(), with TMPDIR unset and /tmp writable
TempDir == <<"/", "t", "m", "p">>

\* the path of the photo: clipboard_photo_<timestamp>.png in the temporary
\* directory
temp_path(t) ==
    join(TempDir, <<"c", "l", "i", "p", "b", "o", "a", "r", "d", "_",
                    "p", "h", "o", "t", "o", "_">>
                  \o Timestamp(t) \o <<".", "p", "n", "g">>)

\* a handler that answers 200 whatever the bridge returned
ClipboardResponse_AlwaysOk(success, error) ==
    [statuses |-> <<200>>,
     headers |-> [h \in {"Content-type", "Access-Control-Allow-Origin"} |->
                    IF h = "Content-type" THEN "text/plain" ELSE "*"],
     json |-> <<>>, chunks |-> <<>>, message |-> "Photo copied to clipboard!"]

\* the answer to what copy_image_to_clipboard returned
ClipboardResponse(success, error) ==
    IF success
    THEN [statuses |-> <<200>>,
          headers |-> [h \in {"Content-type", "Access-Control-Allow-Origin"} |->
                         IF h = "Content-type" THEN "text/plain" ELSE "*"],
          json |-> <<>>, chunks |-> <<>>, message |-> "Photo copied to clipboard!"]
    ELSE ErrorResponse(500, "Clipboard error: " \o error)

\* do_POST, clipboard branch.  fault is "none" or "open", open(temp_path,
\* 'wb') raises OSError; env is the system and what the two subprocess.run
\* of the bridge do.  The photo goes to the temporary directory, which lies
\* outside the tree fs keeps and is read by no handler: the write is
\* recorded in io alone.  The call of the bridge is recorded in call.
Clipboard(r, fault, env) ==
    LET cl     == content_length(r)
        target == [opened |-> <<[mode |-> "wb", path |-> temp_path(now)]>>,
                   written |-> <<ReadBody(r, cl[2])>>, reads |-> <<>>,
                   printed |-> <<>>]
    IN  /\ Idle
        /\ req' = r
        /\ pre' = [fs |-> fs, synced_text |-> synced_text]
        /\ UNCHANGED <<synced_text, fs, now, posted, stored, uploads, frame>>
        /\ IF ~cl[1]
           THEN /\ resp' = ErrorResponse(500, "ValueError")
                /\ io' = [NoIo EXCEPT !.printed = <<"Clipboard error">>]
                /\ UNCHANGED call
           ELSE IF cl[2] = 0
           THEN /\ resp' = ErrorResponse(400, "No image data received")
                /\ io' = NoIo
                /\ UNCHANGED call
           ELSE IF fault = "open"
           THEN /\ resp' = ErrorResponse(500, "OSError")
                /\ io' = [target EXCEPT !.written = <<>>,
                                         !.printed = <<"Clipboard error">>]
                /\ UNCHANGED call
           ELSE LET result == copy_image_to_clipboard(env[1], "ok", env[2], env[3])
                IN  /\ call' = [function |-> "copy_image_to_clipboard",
                                argument |-> <<env[1], "ok", env[2], env[3]>>,
                                returned |-> result]
                    /\ resp' = ClipboardResponse(result.success, result.error)
                    /\ io' = IF result.success THEN target
                             ELSE [target EXCEPT !.printed = <<"Clipboard error">>]

\* do_OPTIONS: the CORS preflight, the same for every path
do_OPTIONS(r) ==
    /\ Idle
    /\ req' = r
    /\ pre' = [fs |-> fs, synced_text |-> synced_text]
    /\ io' = NoIo
    /\ resp' = [statuses |-> <<200>>,
                headers |-> [h \in {"Access-Control-Allow-Origin",
                                    "Access-Control-Allow-Methods",
                                    "Access-Control-Allow-Headers"} |->
                               IF h = "Access-Control-Allow-Origin" THEN "*"
                               ELSE IF h = "Access-Control-Allow-Methods"
                                    THEN "GET, POST, OPTIONS"
                                    ELSE "Content-Type, X-Filename"],
                json |-> <<>>, chunks |-> <<>>, message |-> ""]
    /\ UNCHANGED <<synced_text, fs, now, call, frame, posted, stored, uploads>>

\* do_POST: the branches on the path
do_POST(r, fault, k) ==
    /\ Idle
    /\ IF r.path = TextPath THEN PostText(r)
       ELSE IF r.path = ClipboardPath THEN Clipboard(r, fault, k)
       ELSE Upload(r, fault, k)

(***************************************************************************)
(* The requests and the directories the model draws from.                  *)
(***************************************************************************)
\* one byte, and one byte more than a whole 64 KiB chunk
SmallBody == << <<120, 1>> >>
BigBody == << <<120, 65536>>, <<121, 1>> >>

ATxt == <<"a", ".", "t", "x", "t">>
\* e-acute.txt, and how a URL carries it
EAcuteTxt == <<"U+00E9", ".", "t", "x", "t">>
EAcuteTxtQuoted == <<"%", "C", "3", "%", "A", "9", ".", "t", "x", "t">>
A1Txt == <<"a", "_", "1", ".", "t", "x", "t">>

\* header values for X-Filename: a.txt; ../../etc/passwd; %2E%2E%2Fa.txt
\* (../a.txt, percent-encoded); d/ (no final component)
UploadNames ==
    { ATxt,
      <<".", ".", "/", ".", ".", "/", "e", "t", "c", "/", "p", "a", "s", "s", "w", "d">>,
      <<"%", "2", "E", "%", "2", "E", "%", "2", "F", "a", ".", "t", "x", "t">>,
      <<"d", "/">> }

\* the headers of a request, from a set of <<name, value>> pairs
Headers(pairs) ==
    [h \in {p[1] : p \in pairs} |-> (CHOOSE p \in pairs : p[1] = h)[2]]

Post(path, pairs, body) ==
    [method |-> "POST", path |-> path, headers |-> Headers(pairs), body |-> body]

PostRoot(pairs, body) == Post(<<"/">>, pairs, body)

Get(path) == [method |-> "GET", path |-> path, headers |-> NoHeaders, body |-> <<>>]

\* the path each name is posted to: / for most, /upload for the
\* percent-encoded name and /files for d/
UploadPathOf(n) ==
    IF n = <<"d", "/">> THEN FilesPath
    ELSE IF n[1] = "%" THEN <<"/", "u", "p", "l", "o", "a", "d">>
    ELSE <<"/">>

\* uploads: a.txt with either body; every other name with the small body;
\* no name, with a byte more than the length declares, and with a byte
\* less (the client stops sending and waits for the answer); an empty
\* body with the length absent or "0"; a length that is no number
UploadRequests ==
    {PostRoot({<<"Content-Length", Str(Size(b))>>, <<"X-Filename", ATxt>>}, b) :
        b \in {SmallBody, BigBody}}
    \cup {Post(UploadPathOf(n),
               {<<"Content-Length", Str(Size(SmallBody))>>, <<"X-Filename", n>>},
               SmallBody) : n \in UploadNames \ {ATxt}}
    \cup {PostRoot({<<"Content-Length", <<"1">> >>}, SmallBody \o << <<121, 1>> >>),
          PostRoot({<<"Content-Length", <<"2">> >>}, SmallBody),
          PostRoot({<<"X-Filename", ATxt>>}, <<>>),
          PostRoot({<<"Content-Length", <<"0">> >>}, <<>>),
          PostRoot({<<"Content-Length", <<"x">> >>}, SmallBody)}

\* text posts: each text with its length declared; the empty text with no
\* length; a body that is not UTF-8; a length that is no number
TextRequests ==
    {Post(TextPath, {<<"Content-Length", Str(Size(t.body))>>}, t.body) : t \in Texts}
    \cup {Post(TextPath, {}, <<>>),
          Post(TextPath, {<<"Content-Length", Str(Size(InvalidUtf8))>>}, InvalidUtf8),
          Post(TextPath, {<<"Content-Length", <<"x">> >>}, <<>>)}

\* photos posted to /clipboard: one byte; no byte; a length that is no
\* number
ClipboardRequests ==
    LET path == <<"/", "c", "l", "i", "p", "b", "o", "a", "r", "d">>
    IN  {Post(path, {<<"Content-Length", Str(Size(SmallBody))>>}, SmallBody),
         Post(path, {<<"Content-Length", <<"0">> >>}, <<>>),
         Post(path, {<<"Content-Length", <<"x">> >>}, SmallBody)}

\* the systems platform.system() names, and one the bridge does not know
Systems == {"Darwin", "Windows", "Linux", "FreeBSD"}

\* what a subprocess.run does
Outcomes == {"ok", "failed", "missing"}

\* what may happen to a photo: open raises; or it is written, on any
\* system and with the utilities doing anything
ClipboardFaults(r) ==
    IF content_length(r)[1] /\ content_length(r)[2] # 0
    THEN {<<"open", <<"Linux", "ok", "ok">> >>}
         \cup {<<"none", <<SYSTEM, first, second>> >> :
                  SYSTEM \in Systems, first \in Outcomes, second \in Outcomes}
    ELSE {<<"none", <<"Linux", "ok", "ok">> >>}

\* names asked of /download/: a.txt; a_1.txt; %C3%A9.txt; passwd behind
\* ../../etc/; %2E%2E%2Fa.txt (../a.txt, percent-encoded); sub; .h; ..; the
\* empty name
DownloadNames ==
    { ATxt, A1Txt, EAcuteTxtQuoted,
      <<".", ".", "/", ".", ".", "/", "e", "t", "c", "/", "p", "a", "s", "s", "w", "d">>,
      <<"%", "2", "E", "%", "2", "E", "%", "2", "F", "a", ".", "t", "x", "t">>,
      <<"s", "u", "b">>, <<".", "h">>, <<".", ".">>, <<>> }

\* preflights of the upload and of the text post
OptionsRequests ==
    {[method |-> "OPTIONS", path |-> p, headers |-> NoHeaders, body |-> <<>>] :
        p \in {<<"/">>, TextPath}}

GetRequests ==
    {Get(<<"/">>), Get(FilesPath), Get(TextPath), Get(<<"/", "x">>),
     Get(<<"/", "d", "o", "w", "n", "l", "o", "a", "d">>)}
    \cup {Get(DownloadPrefix \o n) : n \in DownloadNames}

\* what the system does to an upload: nothing; open raises; and, for the
\* uploads named a.txt, the read of the body raises, or the write raises
\* before the last byte
UploadFaults(r) ==
    {<<"none", 0>>, <<"open", 0>>}
    \cup (IF Header(r, "X-Filename", <<>>) = ATxt /\ Size(r.body) > 0
          THEN {<<"read", 0>>, <<"write", Size(r.body) - 1>>} ELSE {})

\* the resolved path of a name of the destination directory
InDir(name) == Append(DownloadsDir, name)

\* directories the server may find when it starts
InitialDirectories ==
    { [q \in {} |-> Absent],
      [q \in {InDir(ATxt)} |-> File(SmallBody, 0)],
      [q \in {InDir(ATxt), InDir(A1Txt)} |->
          IF q = InDir(ATxt) THEN File(SmallBody, 0) ELSE File(BigBody, 1)],
      [q \in {InDir(<<"s", "u", "b">>), InDir(<<".", "h">>)} |->
          IF q = InDir(<<"s", "u", "b">>) THEN Directory ELSE File(SmallBody, 0)],
      [q \in {InDir(ATxt)} |-> Dangling],
      [q \in {InDir(EAcuteTxt)} |-> File(SmallBody, 0)] }

NoCall == [function |-> "", argument |-> <<>>, returned |-> <<>>]
NoFrame == [pc |-> "", file_path |-> <<>>, base |-> <<>>, ext |-> <<>>, counter |-> 0,
            file_data |-> <<>>, file_size |-> 0, disturbed |-> FALSE]
NoRequest == [method |-> "", path |-> <<>>, headers |-> NoHeaders, body |-> <<>>]
NoResponse == [statuses |-> <<>>, headers |-> NoHeaders, json |-> <<>>,
               chunks |-> <<>>, message |-> ""]

Init ==
    /\ synced_text = <<>>
    /\ fs \in InitialDirectories
    /\ now = 1
    /\ req = NoRequest
    /\ resp = NoResponse
    /\ io = NoIo
    /\ pre = [fs |-> fs, synced_text |-> <<>>]
    /\ posted = <<>>
    /\ stored = <<>>
    /\ uploads = 0
    /\ call = NoCall
    /\ frame = NoFrame

\* a second passes between two requests
Tick ==
    /\ Idle
    /\ now < MaxTime
    /\ now' = now + 1
    /\ UNCHANGED <<synced_text, fs, req, resp, io, pre, posted, stored, uploads, call, frame>>

\* the handler has returned and its request and response are gone: the
\* server is back in serve_forever, waiting for the next request
Finish ==
    /\ ~Idle
    /\ frame.pc \in {"", "answered"}
    /\ frame' = NoFrame
    /\ req' = NoRequest
    /\ resp' = NoResponse
    /\ io' = NoIo
    /\ call' = NoCall
    /\ pre' = [fs |-> fs, synced_text |-> synced_text]
    /\ UNCHANGED <<synced_text, fs, now, posted, stored, uploads>>

Next ==
    \/ Tick
    \/ \E r \in GetRequests : do_GET(r)
    \/ \E r \in OptionsRequests : do_OPTIONS(r)
    \/ \E r \in TextRequests : do_POST(r, "none", 0)
    \/ \E r \in UploadRequests : \E fault \in UploadFaults(r) : do_POST(r, fault[1], fault[2])
    \/ \E r \in ClipboardRequests : \E fault \in ClipboardFaults(r) : do_POST(r, fault[1], fault[2])
    \/ Finish

Spec == Init /\ [][Next]_vars

(***************************************************************************)
(* The module-level functions called on their own.                         *)
(***************************************************************************)
\* digits the sizes are made of; 256 and 768 are a quarter and three
\* quarters, where the second decimal is an exact 5
DigitSamples == {0, 1, 2, 5, 256, 500, 768, 1023}

\* the digit sequences of one to three digits that are a number's digits
ShortSizes ==
    {d \in UNION {[1..k -> DigitSamples] : k \in 1..3} : Len(d) = 1 \/ d[Len(d)] # 0}

\* sizes from 0 B up to beyond 1024 TB (below 2^53)
Sizes ==
    ShortSizes
    \cup {<<lo, lo, lo>> \o t : lo \in {0, 1023},
                                t \in {d \in ShortSizes : d[Len(d)] \in 1..5}}

\* str.upper of a word of a-z and digits, and the word with a capital
UpperWord(w) ==
    [i \in 1..Len(w) |-> IF ord(w[i]) \in 97..122 THEN Ascii[ord(w[i]) - 31] ELSE w[i]]

Capitalized(w) == IF w = <<>> THEN w ELSE SubSeq(UpperWord(w), 1, 1) \o Tail(w)

\* every extension get_file_icon knows, one it does not know, and none
Extensions ==
    InProgressExts \cup ImageExts \cup VideoExts \cup AudioExts \cup DocumentExts
    \cup ArchiveExts \cup CodeExts \cup {<<"p", "d", "f">>, <<"x", "y", "z">>, <<>>}

\* filenames: each stem (a; x.y; nothing; a capital E-acute) with each
\* extension in lower case, in upper case and with a capital; and each
\* extension as a name without a dot
IconNames ==
    {stem \o <<".">> \o e : stem \in {<<"a">>, <<"x", ".", "y">>, <<>>, <<"U+00C9">>},
                            e \in UNION {{x, UpperWord(x), Capitalized(x)} : x \in Extensions}}
    \cup {UpperWord(x) : x \in Extensions} \cup Extensions

CallFormatFileSize(size_bytes) ==
    /\ call = NoCall
    /\ call' = [function |-> "format_file_size", argument |-> size_bytes,
                returned |-> format_file_size(size_bytes)]
    /\ UNCHANGED <<synced_text, fs, now, req, resp, io, pre, posted, stored, uploads, frame>>

CallCopyImageToClipboard(SYSTEM, image, first, second) ==
    /\ call = NoCall
    /\ call' = [function |-> "copy_image_to_clipboard",
                argument |-> <<SYSTEM, image, first, second>>,
                returned |-> copy_image_to_clipboard(SYSTEM, image, first, second)]
    /\ UNCHANGED <<synced_text, fs, now, req, resp, io, pre, posted, stored, uploads, frame>>

CallGetFileIcon(filename) ==
    /\ call = NoCall
    /\ call' = [function |-> "get_file_icon", argument |-> filename,
                returned |-> get_file_icon(filename)]
    /\ UNCHANGED <<synced_text, fs, now, req, resp, io, pre, posted, stored, uploads, frame>>

Return ==
    /\ call # NoCall
    /\ call' = NoCall
    /\ UNCHANGED <<synced_text, fs, now, req, resp, io, pre, posted, stored, uploads, frame>>

NextFunctions ==
    \/ \E size_bytes \in Sizes : CallFormatFileSize(size_bytes)
    \/ \E filename \in IconNames : CallGetFileIcon(filename)
    \/ \E SYSTEM \in Systems, image \in {"ok", "absent"}, first, second \in Outcomes :
          CallCopyImageToClipboard(SYSTEM, image, first, second)
    \/ Return

SpecFunctions == Init /\ [][NextFunctions]_vars

(***************************************************************************)
(* What the claims speak of.                                               *)
(***************************************************************************)
\* the request handled last is a file upload, a download, a listing
IsUpload == req.method = "POST" /\ req.path \notin {TextPath, ClipboardPath}
IsDownload == req.method = "GET" /\ StartsWith(req.path, DownloadPrefix)
IsListing == req.method = "GET" /\ req.path = FilesPath

\* the status line the client reads
Status == resp.statuses[1]

\* the final path component of each client-supplied name of the model,
\* after percent-decoding, written out by hand
FinalComponent(raw) ==
    CASE raw = ATxt -> ATxt
      [] raw = A1Txt -> A1Txt
      [] raw = EAcuteTxtQuoted -> EAcuteTxt
      [] raw = <<".", ".", "/", ".", ".", "/", "e", "t", "c", "/", "p", "a", "s", "s", "w", "d">>
            -> <<"p", "a", "s", "s", "w", "d">>
      [] raw = <<"%", "2", "E", "%", "2", "E", "%", "2", "F", "a", ".", "t", "x", "t">>
            -> ATxt
      [] raw = <<"d", "/">> -> <<>>
      [] raw = <<"s", "u", "b">> -> <<"s", "u", "b">>
      [] raw = <<".", "h">> -> <<".", "h">>
      [] raw = <<".", ".">> -> <<".", ".">>
      [] raw = <<>> -> <<>>

\* the name a download asks for, as the URL carries it
AskedName == From(req.path, Len(DownloadPrefix) + 1)

\* the destination directory holds a regular file of this name
RegularFile(f, name) ==
    /\ name \notin {<<>>, <<".">>, <<".", ".">>}
    /\ InDir(name) \in DOMAIN f
    /\ f[InDir(name)].kind = "file"

\* the destination directory holds a file or a directory of this name
Holds(f, name) == InDir(name) \in DOMAIN f /\ f[InDir(name)].kind \in {"file", "dir"}

\* a.txt for k = 0, a_k.txt for k > 0
ATxtNumbered(k) ==
    IF k = 0 THEN ATxt ELSE <<"a", "_">> \o Str(k) \o <<".", "t", "x", "t">>

\* every regular file that was there before the request is as it was
FilesKept == \A q \in DOMAIN pre.fs : pre.fs[q].kind = "file" => q \in DOMAIN fs /\ fs[q] = pre.fs[q]

(***************************************************************************)
(* C1.  An upload never overwrites an existing file: when the directory    *)
(* holds a.txt, a_1.txt, ..., a_(N-1).txt and not a_N.txt, a successful     *)
(* upload named a.txt is stored as a_N.txt with the uploaded bytes, and    *)
(* whatever the outcome of an upload, every file that existed before it    *)
(* keeps its content.                                                      *)
(***************************************************************************)
C1_UploadNeverOverwrites ==
    IsUpload =>
        /\ FilesKept
        /\ \A N \in 1..(MaxUploads + 2) :
              /\ Header(req, "X-Filename", <<>>) = ATxt
              /\ Status = 200
              /\ \A k \in 0..(N - 1) : Holds(pre.fs, ATxtNumbered(k))
              /\ ~Holds(pre.fs, ATxtNumbered(N))
              => /\ resp.json[1].filename = ATxtNumbered(N)
                 /\ RegularFile(fs, ATxtNumbered(N))
                 /\ fs[InDir(ATxtNumbered(N))].data = req.body

\* a.txt and a_1.txt were there, and the upload of a.txt went to a_2.txt
C1_Witness ==
    /\ IsUpload
    /\ Header(req, "X-Filename", <<>>) = ATxt
    /\ Status = 200
    /\ RegularFile(pre.fs, ATxt) /\ RegularFile(pre.fs, A1Txt)
    /\ resp.json[1].filename = ATxtNumbered(2)
    /\ fs[InDir(ATxt)] = pre.fs[InDir(ATxt)]

(***************************************************************************)
(* C2.  Every client-supplied name is percent-decoded and then reduced to  *)
(* its final path component before it is joined to the destination         *)
(* directory: every path an upload or a download opens is a direct child   *)
(* of the destination directory, a download opens the child named by the   *)
(* final component, an upload whose final component is free writes that    *)
(* child, and nothing exists in the file system but children of the        *)
(* destination directory.                                                  *)
(***************************************************************************)
C2_NoPathTraversal ==
    /\ \A q \in DOMAIN fs :
          Len(q) = Len(DownloadsDir) + 1 /\ SubSeq(q, 1, Len(DownloadsDir)) = DownloadsDir
    /\ IsUpload \/ IsDownload => \A i \in 1..Len(io.opened) : IsChild(io.opened[i].path)
    /\ IsDownload /\ io.opened # <<>> =>
          io.opened[1].path = DOWNLOADS_FOLDER \o <<"/">> \o FinalComponent(AskedName)
    /\ IsUpload /\ io.opened # <<>> /\ "X-Filename" \in DOMAIN req.headers
       /\ ~Holds(pre.fs, FinalComponent(req.headers["X-Filename"]))
       /\ FinalComponent(req.headers["X-Filename"]) # <<>> =>
          io.opened[1].path
             = DOWNLOADS_FOLDER \o <<"/">> \o FinalComponent(req.headers["X-Filename"])

\* the upload named ../../etc/passwd wrote the child passwd
C2_Witness ==
    /\ IsUpload
    /\ Header(req, "X-Filename", <<>>)
          = <<".", ".", "/", ".", ".", "/", "e", "t", "c", "/", "p", "a", "s", "s", "w", "d">>
    /\ Status = 200
    /\ io.opened[1].path = DOWNLOADS_FOLDER \o <<"/", "p", "a", "s", "s", "w", "d">>
    /\ RegularFile(fs, <<"p", "a", "s", "s", "w", "d">>)

(***************************************************************************)
(* C3.  Text sync is last-writer-wins with unconditional overwrite: GET    *)
(* /text returns exactly the body of the most recent POST /text that was   *)
(* answered, the empty body included, and the empty string when there was  *)
(* none.                                                                   *)
(***************************************************************************)
C3_LastWriterWins ==
    req.method = "GET" /\ req.path = TextPath => resp.json[1].text = posted

(***************************************************************************)
(* C4.  The uploads answered 200 so far are stored under pairwise distinct *)
(* names, and each stored file holds exactly the bytes of its own upload.  *)
(***************************************************************************)
C4_UploadsKeptApart ==
    /\ \A i, j \in 1..Len(stored) : i # j => stored[i].filename # stored[j].filename
    /\ \A i \in 1..Len(stored) :
          /\ RegularFile(fs, stored[i].filename)
          /\ fs[InDir(stored[i].filename)].data = stored[i].data

\* two uploads of different bodies under the one name a.txt
C4_Witness ==
    /\ Len(stored) = 2
    /\ stored[1].filename = ATxt /\ stored[2].filename = A1Txt
    /\ stored[1].data # stored[2].data
    /\ IsUpload /\ Header(req, "X-Filename", <<>>) = ATxt

(***************************************************************************)
(* C5.  An upload whose Content-Length is zero or absent is answered 400,  *)
(* and the file system is left as it was.                                  *)
(***************************************************************************)
C5_EmptyUploadRejected ==
    IsUpload /\ Header(req, "Content-Length", <<"0">>) = <<"0">> =>
        /\ resp.statuses = <<400>>
        /\ fs = pre.fs
        /\ io.opened = <<>>

\* an upload named a.txt with no Content-Length was refused while a.txt
\* was there
C5_Witness ==
    /\ IsUpload
    /\ "Content-Length" \notin DOMAIN req.headers
    /\ Header(req, "X-Filename", <<>>) = ATxt
    /\ resp.statuses = <<400>>
    /\ RegularFile(fs, ATxt)

(***************************************************************************)
(* C6.  A download whose name, reduced to its final component, names no    *)
(* regular file of the destination directory (a missing name, a directory, *)
(* "..", the empty name) is answered 404; no file is opened and no body    *)
(* bytes are sent.                                                         *)
(***************************************************************************)
C6_DownloadNotFound ==
    IsDownload /\ ~RegularFile(fs, FinalComponent(AskedName)) =>
        /\ resp.statuses = <<404>>
        /\ resp.chunks = <<>>
        /\ io.opened = <<>>

\* the directory sub was asked for and refused
C6_Witness ==
    /\ IsDownload
    /\ AskedName = <<"s", "u", "b">>
    /\ Holds(fs, <<"s", "u", "b">>)
    /\ resp.statuses = <<404>>

\* the array GET /files answers with, and the names in it
Listing == resp.json[1]
ListedNames == {Listing[i].name : i \in 1..Len(Listing)}

\* the children of the destination directory that are regular files and
\* whose name does not start with a dot
Listable(f) == {n \in Children(f) : n[1] # "." /\ f[InDir(n)].kind = "file"}

\* the lister printed "Error listing files": the enumeration raised
EnumerationFailed == io.printed # <<>>

(***************************************************************************)
(* C7, as stated.  The listing of GET /files holds exactly the children of *)
(* the destination directory that are regular files and whose name does    *)
(* not start with a dot, each of them once.                                *)
(***************************************************************************)
C7_ListingExact ==
    IsListing =>
        /\ ListedNames = Listable(pre.fs)
        /\ Len(Listing) = Cardinality(Listable(pre.fs))

(***************************************************************************)
(* C7, amended.  The listing of GET /files never holds a hidden entry, a   *)
(* non-regular entry or an entry twice; when the enumeration of the        *)
(* directory raised no error, it holds every child that is a regular file  *)
(* and whose name does not start with a dot.                               *)
(***************************************************************************)
C7_ListingExactUnlessFailed ==
    IsListing =>
        /\ \A i, j \in 1..Len(Listing) : i # j => Listing[i].name # Listing[j].name
        /\ ListedNames \subseteq Listable(pre.fs)
        /\ ~EnumerationFailed => ListedNames = Listable(pre.fs)

\* a directory with a hidden file, a subdirectory and a regular file was
\* listed without error
C7_Witness ==
    /\ IsListing
    /\ ~EnumerationFailed
    /\ Listing # <<>>
    /\ \E n \in Children(pre.fs) : n[1] = "."
    /\ \E n \in Children(pre.fs) : pre.fs[InDir(n)].kind = "dir"

(***************************************************************************)
(* C8.  Every list the directory lister returns is sorted by modification  *)
(* time descending: of two consecutive entries the first is at least as    *)
(* new as the second.                                                      *)
(***************************************************************************)
C8_ListingSorted ==
    IsListing =>
        \A i \in 1..(Len(Listing) - 1) : Listing[i].modified >= Listing[i + 1].modified

(***************************************************************************)
(* C9.  GET /files always answers 200; when the enumeration of the         *)
(* directory failed at any point the list is empty, and so it is for an    *)
(* empty directory.                                                        *)
(***************************************************************************)
C9_FailureGivesEmptyList ==
    IsListing =>
        /\ resp.statuses = <<200>>
        /\ EnumerationFailed => Listing = <<>>
        /\ Children(pre.fs) = {} => Listing = <<>>

\* the chunks of a body, put together in order
RECURSIVE Joined(_)
Joined(chunks) ==
    IF chunks = <<>> THEN <<>> ELSE Concat(Head(chunks), Joined(Tail(chunks)))

(***************************************************************************)
(* C10.  A download answered 200 declares a Content-Length equal to the    *)
(* size of the file and sends its content as chunks of 1 to 65536 bytes    *)
(* whose concatenation in order is the content; the reads of the loop are  *)
(* those chunks and then one empty read, the last.                         *)
(***************************************************************************)
C10_DownloadStreams ==
    IsDownload /\ resp.statuses = <<200>> =>
        LET content == pre.fs[InDir(FinalComponent(AskedName))].data
        IN  /\ resp.headers["Content-Length"] = Str(Size(content))
            /\ \A i \in 1..Len(resp.chunks) : Size(resp.chunks[i]) \in 1..ChunkSize
            /\ Joined(resp.chunks) = content
            /\ io.reads = resp.chunks \o << <<>> >>

\* a_1.txt, of 65537 bytes, went out as a chunk of 65536 bytes and one of
\* a single byte
C10_Witness ==
    /\ IsDownload
    /\ AskedName = A1Txt
    /\ resp.statuses = <<200>>
    /\ Len(resp.chunks) = 2
    /\ Size(resp.chunks[1]) = ChunkSize
    /\ Size(resp.chunks[2]) = 1

\* the Content-Disposition header of the response
Disposition == resp.headers["Content-Disposition"]

\* "attachment; " and the two forms of the filename parameter
AttachmentPrefix == <<"a", "t", "t", "a", "c", "h", "m", "e", "n", "t", ";", " ">>
PlainForm == AttachmentPrefix \o <<"f", "i", "l", "e", "n", "a", "m", "e", "=", "<22>">>
ExtendedForm ==
    AttachmentPrefix
    \o <<"f", "i", "l", "e", "n", "a", "m", "e", "*", "=", "U", "T", "F", "-", "8", "'", "'">>

(***************************************************************************)
(* C11.  The Content-Disposition of a download marks an attachment and has *)
(* one of two forms: filename="<name>" when every character of the name is *)
(* ASCII, and filename*=UTF-8''<percent-encoded name> (characters of ASCII  *)
(* only) when the name holds a character outside ASCII.                    *)
(***************************************************************************)
C11_DispositionForm ==
    IsDownload /\ Status = 200 =>
        LET name == FinalComponent(AskedName)
        IN  IF \A i \in 1..Len(name) : name[i] \in AsciiChars
            THEN Disposition = PlainForm \o name \o <<"<22>">>
            ELSE /\ StartsWith(Disposition, ExtendedForm)
                 /\ \A i \in 1..Len(Disposition) : Disposition[i] \in AsciiChars
                 /\ unquote(From(Disposition, Len(ExtendedForm) + 1)) = name

\* e-acute.txt went out under filename*=UTF-8''%C3%A9.txt
C11_Witness ==
    /\ IsDownload
    /\ resp.statuses = <<200>>
    /\ AskedName = EAcuteTxtQuoted
    /\ Disposition = ExtendedForm \o EAcuteTxtQuoted

\* the call of format_file_size that returned: the number printed and the
\* unit after it
PrintedNumber == SubSeq(call.returned, 1, RFind(call.returned, " ") - 1)
PrintedUnit == From(call.returned, RFind(call.returned, " ") + 1)

\* the printed number with one decimal place, counted in tenths
PrintedTenths ==
    LET dot == RFind(PrintedNumber, ".")
    IN  10 * ParseInt(SubSeq(PrintedNumber, 1, dot - 1))[2]
        + ParseInt(From(PrintedNumber, dot + 1))[2]

\* the printed number is digits, a dot and one digit
HasOneDecimal ==
    LET dot == RFind(PrintedNumber, ".")
    IN  /\ dot = Len(PrintedNumber) - 1
        /\ ParseInt(SubSeq(PrintedNumber, 1, dot - 1))[1]
        /\ ParseInt(From(PrintedNumber, dot + 1))[1]

\* the unit a size of so many base-1024 digits is printed in
UnitOf(digits) ==
    CASE digits = 1 -> <<"B">>
      [] digits = 2 -> <<"K", "B">>
      [] digits = 3 -> <<"M", "B">>
      [] digits = 4 -> <<"G", "B">>
      [] OTHER -> <<"T", "B">>

(***************************************************************************)
(* C12.  format_file_size prints a size below 1024 as its whole number and *)
(* "B"; a larger size is divided by 1024 until it is below 1024 or the     *)
(* unit is TB, and is printed with one decimal place, within 0.05 of the   *)
(* quotient, and its unit KB, MB, GB or TB.  500 gives "500 B", 2048 gives *)
(* "2.0 KB" and 5*1024*1024 gives "5.0 MB".                                *)
(***************************************************************************)
C12_SizeFormat ==
    call.function = "format_file_size" =>
        LET d      == call.argument
            shifts == IF Len(d) > 5 THEN 4 ELSE Len(d) - 1
            \* the quotient lies between lowest / 1024 and (lowest + 1) / 1024
            lowest == Base * FromBase1024(From(d, shifts + 1)) + d[shifts]
        IN  /\ PrintedUnit = UnitOf(Len(d))
            /\ Len(d) = 1 => PrintedNumber = Str(d[1])
            /\ Len(d) > 1 =>
                  /\ HasOneDecimal
                  /\ Base * PrintedTenths >= 10 * lowest - Base \div 2
                  /\ Base * PrintedTenths <= 10 * (lowest + 1) + Base \div 2
            /\ d = <<500>> => call.returned = <<"5", "0", "0", " ", "B">>
            /\ d = <<0, 2>> => call.returned = <<"2", ".", "0", " ", "K", "B">>
            /\ d = <<0, 0, 5>> => call.returned = <<"5", ".", "0", " ", "M", "B">>

\* 5 * 1024 * 1024 was formatted as 5.0 MB
C12_Witness ==
    /\ call.function = "format_file_size"
    /\ call.argument = ToBase1024(5 * 1024 * 1024)
    /\ call.returned = <<"5", ".", "0", " ", "M", "B">>

\* the filename of the call with its capitals A-Z and E-acute made small
LowerCased ==
    [i \in 1..Len(call.argument) |->
        LET c == call.argument[i]
        IN  IF c = "U+00C9" THEN "U+00E9"
            ELSE IF \E k \in 66..91 : Ascii[k] = c
                 THEN Ascii[(CHOOSE k \in 66..91 : Ascii[k] = c) + 32]
                 ELSE c]

\* what follows the last dot of the lower-cased filename
LowerCasedExtension == From(LowerCased, RFind(LowerCased, ".") + 1)

(***************************************************************************)
(* C13.  get_file_icon returns for every filename the tag it returns for   *)
(* the lower-cased filename: a name ending in .pdf in any case gets the    *)
(* PDF tag, a name with an unknown extension or without a dot gets the     *)
(* default tag, and every call returns a tag.                              *)
(***************************************************************************)
C13_IconIgnoresCase ==
    call.function = "get_file_icon" =>
        /\ call.returned \in {FILE_ICONS[k] : k \in DOMAIN FILE_ICONS}
                              \cup {InProgressIcon, SpreadsheetIcon, WordIcon,
                                    MarkdownIcon, TextIcon}
        /\ call.returned = get_file_icon(LowerCased)
        /\ LowerCasedExtension = <<"p", "d", "f">> /\ RFind(LowerCased, ".") > 0
              => call.returned = FILE_ICONS.pdf
        /\ RFind(call.argument, ".") = 0 \/ LowerCasedExtension \in {<<"x", "y", "z">>, <<>>}
              => call.returned = FILE_ICONS.default
        /\ LowerCasedExtension = <<"p", "n", "g">> /\ RFind(LowerCased, ".") > 0
              => call.returned = FILE_ICONS.image

\* a.PDF got the PDF icon
C13_Witness ==
    /\ call.function = "get_file_icon"
    /\ call.argument = <<"a", ".", "P", "D", "F">>
    /\ call.returned = FILE_ICONS.pdf

(***************************************************************************)
(* C14.  Every response the server sends, whatever the method, the path    *)
(* and the status, carries Access-Control-Allow-Origin: *.                 *)
(***************************************************************************)
C14_CorsOnEveryResponse ==
    ~Idle =>
        /\ "Access-Control-Allow-Origin" \in DOMAIN resp.headers
        /\ resp.headers["Access-Control-Allow-Origin"] = "*"

\* the request handled last is a GET of a path that is none of /, /files,
\* /text and /download/<name>
IsUnknownGet ==
    /\ req.method = "GET"
    /\ req.path \notin {<<"/">>, FilesPath, TextPath}
    /\ ~StartsWith(req.path, DownloadPrefix)

(***************************************************************************)
(* C15.  GET of a path other than /, /files, /text and /download/<name>    *)
(* is answered 404; it opens no file and changes neither the synced text   *)
(* nor any file.                                                           *)
(***************************************************************************)
C15_UnknownPathNotFound ==
    IsUnknownGet =>
        /\ resp.statuses = <<404>>
        /\ io.opened = <<>>
        /\ fs = pre.fs
        /\ synced_text = pre.synced_text

\* /download, without the slash, was refused while there were a text and a
\* file to keep
C15_Witness ==
    /\ IsUnknownGet
    /\ req.path = <<"/", "d", "o", "w", "n", "l", "o", "a", "d">>
    /\ resp.statuses = <<404>>
    /\ synced_text # <<>>
    /\ RegularFile(fs, ATxt)

\* the request handled last is a POST of /text or of /clipboard
IsTextOrClipboardPost ==
    /\ req.method = "POST"
    /\ req.path \in {<<"/", "t", "e", "x", "t">>,
                     <<"/", "c", "l", "i", "p", "b", "o", "a", "r", "d">>}

(***************************************************************************)
(* C16.  GET / serves the page and writes nothing.  POST /, and POST of    *)
(* any path other than /text and /clipboard, is an upload: answered 200,   *)
(* it has stored the body it read under the name it reports, in the        *)
(* destination directory.  POST /text and POST /clipboard leave the        *)
(* destination directory as it was and open no file in it.                 *)
(***************************************************************************)
C16_RootDualPurpose ==
    /\ req.method = "GET" /\ req.path = <<"/">> =>
          /\ resp.statuses = <<200>>
          /\ resp.headers["Content-type"] = "text/html; charset=utf-8"
          /\ io.opened = <<>>
          /\ fs = pre.fs /\ synced_text = pre.synced_text
    /\ req.method = "POST" /\ ~IsTextOrClipboardPost /\ content_length(req)[1] /\ content_length(req)[2] > 0
       /\ io.printed = <<>> =>
          /\ resp.statuses = <<200>>
          /\ RegularFile(fs, resp.json[1].filename)
          /\ ~Holds(pre.fs, resp.json[1].filename)
          /\ fs[InDir(resp.json[1].filename)].data = TakeBytes(req.body, content_length(req)[2])
    /\ IsTextOrClipboardPost =>
          /\ fs = pre.fs
          /\ \A i \in 1..Len(io.opened) : ~IsChild(io.opened[i].path)

\* POST /upload stored its body as a.txt
C16_Witness ==
    /\ req.method = "POST"
    /\ req.path = <<"/", "u", "p", "l", "o", "a", "d">>
    /\ resp.statuses = <<200>>
    /\ resp.json[1].filename = ATxt
    /\ RegularFile(fs, ATxt) /\ ~Holds(pre.fs, ATxt)

(***************************************************************************)
(* C17.  Requests are handled one at a time: while a handler is running    *)
(* the only step of the server is the end of that handler, so no request   *)
(* is taken (a GET /files or a POST /text no more than any other) before   *)
(* the handling of the previous one, a download included, has finished.    *)
(* A handler is running while req holds the request it was given.          *)
(***************************************************************************)
C17_OneRequestAtATime ==
    [][req.method # "" => /\ req'.method = ""
                          /\ fs' = fs /\ synced_text' = synced_text /\ now' = now]_vars

\* a download of two chunks is being handled
C17_Witness ==
    /\ req.method # ""
    /\ IsDownload
    /\ resp.statuses = <<200>>
    /\ Len(resp.chunks) = 2

(***************************************************************************)
(* C18.  An upload answered 200 has read exactly the declared              *)
(* Content-Length bytes of the body and written exactly those bytes to the *)
(* file it reports: the filename of the payload is the name stored on disk *)
(* and its size is the number of bytes written, the declared length.       *)
(***************************************************************************)
C18_UploadStoresDeclaredBytes ==
    IsUpload /\ resp.statuses = <<200>> =>
        /\ RegularFile(fs, resp.json[1].filename)
        /\ io.opened[1].path = DOWNLOADS_FOLDER \o <<"/">> \o resp.json[1].filename
        /\ fs[InDir(resp.json[1].filename)].data
              = TakeBytes(req.body, content_length(req)[2])
        /\ resp.json[1].size = Size(fs[InDir(resp.json[1].filename)].data)
        /\ resp.json[1].size = content_length(req)[2]

(***************************************************************************)
(* C19.  An exception raised while an upload parses its headers, reads the *)
(* body or writes the file is answered with the single status 500 and the  *)
(* error text, no success payload is sent, and the file the upload had     *)
(* created keeps the bytes written before the exception: nothing is rolled *)
(* back.  An upload raised an exception when its except clause printed the *)
(* error.                                                                  *)
(***************************************************************************)
C19_UploadErrorNoRollback ==
    IsUpload /\ io.printed # <<>> =>
        /\ resp.statuses = <<500>>
        /\ resp.message # ""
        /\ resp.json = <<>>
        /\ \A q \in DOMAIN pre.fs : q \in DOMAIN fs
        /\ \A i \in 1..Len(io.written) :
              /\ RegularFile(fs, basename(io.opened[i].path))
              /\ fs[InDir(basename(io.opened[i].path))].data = io.written[i]

\* the write of a.txt with the big body raised after 65536 bytes, which
\* a.txt keeps
C19_Witness ==
    /\ IsUpload /\ io.printed # <<>>
    /\ io.written = << << <<120, 65536>> >> >>
    /\ Size(fs[InDir(ATxt)].data) < content_length(req)[2]

(***************************************************************************)
(* C20.  An I/O failure while a download is streamed is answered with the  *)
(* status 500, and it is surfaced once: the response to the request        *)
(* carries that single status.  A download failed when its except clause   *)
(* printed the error.                                                      *)
(***************************************************************************)
C20_StreamFailureSurfacesOnce ==
    IsDownload /\ io.printed # <<>> => resp.statuses = <<500>>

(***************************************************************************)
(* C21.  copy_image_to_clipboard on Linux reports the install hint exactly *)
(* when the utilities could not be found: a utility that was found, ran    *)
(* and exited with a failure is reported with another diagnostic.          *)
(***************************************************************************)
C21_InstallHintOnlyWhenMissing ==
    /\ call.function = "copy_image_to_clipboard"
    /\ call.argument[1] = "Linux" /\ call.argument[2] = "ok"
    /\ ~call.returned.success
    => (call.returned.error = InstallHint
           <=> call.argument[3] = "missing" /\ call.argument[4] = "missing")

\* the request handled last is a POST of /clipboard
IsClipboardPost == req.method = "POST" /\ req.path = ClipboardPath

(***************************************************************************)
(* C22.  POST /clipboard answers 200 exactly when it called                *)
(* copy_image_to_clipboard and the bridge reported success; when the       *)
(* bridge reported failure it answers 500 with the bridge's error text;    *)
(* and for a content length of zero it answers 400, having opened no       *)
(* temporary file and not called the bridge, so that no utility ran.       *)
(***************************************************************************)
C22_ClipboardSurfacesBridge ==
    IsClipboardPost =>
        /\ resp.statuses = <<200>>
              <=> /\ call.function = "copy_image_to_clipboard"
                  /\ call.returned.success
        /\ call.function = "copy_image_to_clipboard" /\ ~call.returned.success =>
              /\ resp.statuses = <<500>>
              /\ resp.message = "Clipboard error: " \o call.returned.error
        /\ content_length(req) = <<TRUE, 0>> =>
              /\ resp.statuses = <<400>>
              /\ io.opened = <<>> /\ io.written = <<>>
              /\ call.function = ""

\* on Linux xclip failed and xsel was missing: the answer is 500 with the
\* install hint
C22_Witness ==
    /\ IsClipboardPost
    /\ call.function = "copy_image_to_clipboard"
    /\ call.argument = <<"Linux", "ok", "failed", "missing">>
    /\ resp.statuses = <<500>>
    /\ resp.message = "Clipboard error: " \o InstallHint

(***************************************************************************)
(* C23.  The success response of POST /text reports the new length: its    *)
(* length field is the length of the text carried by the body of that      *)
(* same request, the empty body included.                                  *)
(***************************************************************************)
C23_TextLengthOfRequest ==
    req.method = "POST" /\ req.path = TextPath /\ resp.statuses = <<200>> =>
        resp.json[1].length = Len(SentText(req.body))

(***************************************************************************)
(* The destination directory shared with another process.  The upload and  *)
(* the download run one system call at a time, and between two of them the *)
(* other process may create, rewrite or remove a file of the directory.    *)
(***************************************************************************)
\* the other process touches a.txt, a_1.txt, ..., a_MaxOther.txt
MaxOther == 1

OtherNames == {ATxtNumbered(k) : k \in 0..MaxOther}

\* what the other process leaves in a file: two bytes, more than a.txt
\* holds at first and fewer than a_1.txt
OtherBody == << <<122, 2>> >>

\* os.remove(path)
RemoveFile(f, path) == [q \in DOMAIN f \ {Resolve(path)} |-> f[q]]

\* the other process creates or rewrites one of its files, or removes it
OtherProcess ==
    /\ \E name \in OtherNames :
          LET path == join(DOWNLOADS_FOLDER, name)
          IN  /\ Stat(fs, path).kind \in {"absent", "file"}
              /\ \/ fs' = WriteFile(fs, path, OtherBody, now)
                 \/ /\ exists(fs, path)
                    /\ fs' = RemoveFile(fs, path)
    /\ frame' = IF frame.pc = "" THEN frame ELSE [frame EXCEPT !.disturbed = TRUE]
    \* pre is the state the next request finds, while no handler runs
    /\ pre' = IF Idle THEN [pre EXCEPT !.fs = fs'] ELSE pre
    /\ UNCHANGED <<synced_text, now, req, resp, io, posted, stored, uploads, call>>

\* a loop that probes every second number
Candidate_SkipsOne(base, ext, counter) ==
    join(DOWNLOADS_FOLDER, base \o <<"_">> \o Str(2 * counter) \o ext)

\* os.path.join(DOWNLOADS_FOLDER, f"{base}_{counter}{ext}")
Candidate(base, ext, counter) ==
    join(DOWNLOADS_FOLDER, base \o <<"_">> \o Str(counter) \o ext)

\* the upload up to the while loop: the body is read, and file_path, base,
\* ext and counter are set
BeginUpload(r) ==
    LET filename == UploadFilename(r, now)
        parts    == splitext(filename)
    IN  /\ Idle
        /\ UploadWrites(r)
        /\ uploads < MaxUploads
        /\ req' = r
        /\ pre' = [fs |-> fs, synced_text |-> synced_text]
        /\ frame' = [NoFrame EXCEPT !.pc = "probe",
                                    !.file_path = join(DOWNLOADS_FOLDER, filename),
                                    !.base = parts[1], !.ext = parts[2],
                                    !.counter = 1,
                                    !.file_data = ReadBody(r, content_length(r)[2])]
        /\ UNCHANGED <<synced_text, fs, now, resp, io, posted, stored, uploads, call>>

\* one test of the while loop, and its body when the test holds
Probe ==
    /\ frame.pc = "probe"
    /\ frame' = IF exists(fs, frame.file_path)
                THEN [frame EXCEPT !.file_path = Candidate(frame.base, frame.ext,
                                                           frame.counter),
                                   !.counter = @ + 1]
                ELSE [frame EXCEPT !.pc = "open"]
    /\ UNCHANGED <<synced_text, fs, now, req, resp, io, pre, posted, stored, uploads, call>>

\* open(file_path, 'wb'), f.write(file_data) and the response
OpenAndWrite ==
    LET saved_name == basename(frame.file_path)
    IN  /\ frame.pc = "open"
        /\ fs' = WriteFile(fs, frame.file_path, frame.file_data, now)
        /\ resp' = JsonResponse([success |-> TRUE, filename |-> saved_name,
                                 size |-> Size(frame.file_data)])
        /\ io' = [NoIo EXCEPT !.opened = <<[mode |-> "wb", path |-> frame.file_path]>>,
                              !.written = <<frame.file_data>>]
        /\ stored' = Append(stored, [filename |-> saved_name, data |-> frame.file_data])
        /\ uploads' = uploads + 1
        /\ frame' = [frame EXCEPT !.pc = "answered"]
        /\ UNCHANGED <<synced_text, now, req, pre, posted, call>>

\* the download up to the test of line 353
BeginDownload(r) ==
    LET filename  == basename(unquote(From(r.path, 11)))
        file_path == join(DOWNLOADS_FOLDER, filename)
    IN  /\ Idle
        /\ req' = r
        /\ pre' = [fs |-> fs, synced_text |-> synced_text]
        /\ IF ~exists(fs, file_path) \/ ~isfile(fs, file_path)
           THEN /\ resp' = ErrorResponse(404, "File not found")
                /\ frame' = [NoFrame EXCEPT !.pc = "answered"]
           ELSE /\ resp' = resp
                /\ frame' = [NoFrame EXCEPT !.pc = "getsize", !.file_path = file_path]
        /\ UNCHANGED <<synced_text, fs, now, io, posted, stored, uploads, call>>

\* os.path.getsize(file_path), and the status and the headers sent with
\* the size it returned
GetSize ==
    /\ frame.pc = "getsize"
    /\ IF Stat(fs, frame.file_path).kind # "file"
       THEN /\ resp' = ErrorResponse(500, "OSError")
            /\ io' = [NoIo EXCEPT !.printed = <<"Download error">>]
            /\ frame' = [frame EXCEPT !.pc = "answered"]
       ELSE /\ resp' = [statuses |-> <<200>>,
                        headers |-> DownloadHeaders(getsize(fs, frame.file_path),
                                                    basename(frame.file_path)),
                        json |-> <<>>, chunks |-> <<>>, message |-> ""]
            /\ io' = io
            /\ frame' = [frame EXCEPT !.pc = "stream",
                                      !.file_size = getsize(fs, frame.file_path)]
    /\ UNCHANGED <<synced_text, fs, now, req, pre, posted, stored, uploads, call>>

\* open(file_path, 'rb') and the loop of f.read and wfile.write, on the
\* file as it is now
Stream ==
    LET entry  == Stat(fs, frame.file_path)
        reads  == ReadLoop(entry.data, 0)
        source == <<[mode |-> "rb", path |-> frame.file_path]>>
    IN  /\ frame.pc = "stream"
        /\ IF entry.kind # "file"
           THEN /\ resp' = [resp EXCEPT !.statuses = <<200, 500>>, !.message = "OSError"]
                /\ io' = [NoIo EXCEPT !.opened = source,
                                      !.printed = <<"Download error">>]
           ELSE /\ resp' = [resp EXCEPT !.chunks = SubSeq(reads, 1, Len(reads) - 1)]
                /\ io' = [NoIo EXCEPT !.opened = source, !.reads = reads]
        /\ frame' = [frame EXCEPT !.pc = "answered"]
        /\ UNCHANGED <<synced_text, fs, now, req, pre, posted, stored, uploads, call>>

\* the requests of the shared directory: a.txt uploaded; a.txt and a_1.txt
\* asked for
SharedUploads ==
    {PostRoot({<<"Content-Length", Str(Size(SmallBody))>>, <<"X-Filename", ATxt>>},
              SmallBody)}

SharedDownloads == {Get(DownloadPrefix \o n) : n \in {ATxt, A1Txt}}

NextShared ==
    \/ \E r \in SharedUploads : BeginUpload(r)
    \/ Probe
    \/ OpenAndWrite
    \/ \E r \in SharedDownloads : BeginDownload(r)
    \/ GetSize
    \/ Stream
    \/ OtherProcess
    \/ Finish

\* the handler's loop is not held up for ever: the other process may act
\* at any time, or never
SpecShared == Init /\ [][NextShared]_vars /\ WF_vars(Probe)

(***************************************************************************)
(* C24.  The de-duplication loop of the upload terminates, the other       *)
(* process creating finitely many names: every upload that enters the loop *)
(* leaves it.  When nothing else wrote during the loop, it leaves with     *)
(* stem_k.ext for the smallest k >= 1 that does not exist (the name asked  *)
(* for when that does not exist), having probed k = 1, 2, ... in order.    *)
(***************************************************************************)
C24_DedupTerminates ==
    /\ [](frame.pc = "open" /\ ~frame.disturbed =>
             LET n == frame.counter - 1
             IN  /\ frame.file_path = join(DOWNLOADS_FOLDER, ATxtNumbered(n))
                 /\ ~exists(fs, frame.file_path)
                 /\ \A j \in 0..(n - 1) :
                       exists(fs, join(DOWNLOADS_FOLDER, ATxtNumbered(j))))
    /\ (frame.pc = "probe" ~> frame.pc = "open")

\* the loop probed a.txt and a_1.txt, which existed, and left with a_2.txt
C24_Witness ==
    /\ frame.pc = "open" /\ ~frame.disturbed
    /\ frame.counter = 3
    /\ frame.file_path = join(DOWNLOADS_FOLDER, ATxtNumbered(2))

(***************************************************************************)
(* C25.  An upload never truncates or replaces a file that exists at the   *)
(* moment it opens its target for writing, whatever another process        *)
(* created between the existence check and the write.                      *)
(***************************************************************************)
C25_UploadNeverReplaces ==
    [][frame.pc = "open" /\ frame'.pc = "answered" => ~exists(fs, frame.file_path)]_vars

(***************************************************************************)
(* C26.  A download answered 200 has written as many body bytes as the     *)
(* Content-Length header declares, whatever another process did to the     *)
(* file between the size query and the end of streaming.                   *)
(***************************************************************************)
C26_DownloadLengthMatches ==
    /\ IsDownload /\ frame.pc = "answered"
    /\ resp.statuses # <<>> /\ resp.statuses[1] = 200
    => Str(Size(Joined(resp.chunks))) = resp.headers["Content-Length"]

(***************************************************************************)
(* C27.  Upload and download are inverse on content.  The directory is     *)
(* changed by uploads alone; every upload answered 200 with stored name F  *)
(* is such that a later GET /download/F that meets no I/O error answers    *)
(* 200 with the uploaded bytes as its body, and, F not starting with a     *)
(* dot, a later GET /files whose enumeration does not fail lists an entry  *)
(* named F with the number of uploaded bytes as its size.                  *)
(***************************************************************************)
C27_UploadDownloadInverse ==
    \A i \in 1..Len(stored) :
        /\ IsDownload /\ io.printed = <<>>
           /\ FinalComponent(AskedName) = stored[i].filename =>
              /\ resp.statuses = <<200>>
              /\ Joined(resp.chunks) = stored[i].data
        /\ IsListing /\ ~EnumerationFailed /\ stored[i].filename[1] # "." =>
              \E j \in 1..Len(Listing) :
                  /\ Listing[j].name = stored[i].filename
                  /\ Listing[j].size = Size(stored[i].data)

\* a.txt was uploaded with 65537 bytes and downloaded in two chunks
C27_Witness ==
    /\ IsDownload
    /\ Len(stored) = 1
    /\ stored[1] = [filename |-> ATxt, data |-> BigBody]
    /\ AskedName = ATxt
    /\ resp.statuses = <<200>>
    /\ Len(resp.chunks) = 2

(***************************************************************************)
(* C28, as stated.  Listing and download agree: in one state of the        *)
(* destination directory, a name is answered 200 by GET /download/<name>   *)
(* if and only if GET /files lists an entry of that name.                  *)
(***************************************************************************)
C28_ListingDownloadAgree ==
    IsDownload /\ io.printed = <<>> =>
        (resp.statuses = <<200>> <=> FinalComponent(AskedName) \in Listable(fs))

(***************************************************************************)
(* C28, corrected.  In one state of the destination directory and without  *)
(* I/O errors, every name GET /files lists is a regular file, which GET    *)
(* /download/<name> answers 200; and a name answered 200 by GET            *)
(* /download/<name> is listed by GET /files unless it starts with a dot:   *)
(* a regular file whose name starts with a dot is served and not listed.   *)
(***************************************************************************)
C28_ListedIsDownloadable ==
    /\ IsDownload /\ io.printed = <<>> =>
          LET name == FinalComponent(AskedName)
          IN  resp.statuses = <<200>>
                  <=> \/ name \in Listable(fs)
                      \/ RegularFile(fs, name) /\ name[1] = "."
    /\ IsListing /\ ~EnumerationFailed =>
          /\ ListedNames = Listable(fs)
          /\ \A n \in ListedNames : RegularFile(fs, n)

\* the hidden file .h was served
C28_Witness ==
    /\ IsDownload
    /\ AskedName = <<".", "h">>
    /\ resp.statuses = <<200>>
    /\ AskedName \notin Listable(fs)

(***************************************************************************)
(* C29.  Each operation leaves unrelated state unchanged: a GET or an      *)
(* OPTIONS request changes neither the synced text nor any file of the     *)
(* destination directory; POST /text and POST /clipboard change no file of *)
(* the destination directory; an upload and POST /clipboard leave the      *)
(* synced text unchanged.                                                  *)
(***************************************************************************)
C29_UnrelatedStateUnchanged ==
    /\ req.method \in {"GET", "OPTIONS"} =>
          synced_text = pre.synced_text /\ fs = pre.fs
    /\ IsTextOrClipboardPost => fs = pre.fs
    /\ IsUpload \/ IsClipboardPost => synced_text = pre.synced_text

\* an upload stored a file and the text posted before is still there
C29_Witness ==
    /\ IsUpload
    /\ resp.statuses = <<200>>
    /\ fs # pre.fs
    /\ synced_text = <<"h", "U+00E9">>

(***************************************************************************)
(* C30.  A POST /text that fails, its Content-Length not an integer or its *)
(* body not valid UTF-8, answers 500 and leaves the synced text as it was  *)
(* before the request; GET /text answers with the text as it stands and    *)
(* changes nothing, so that a GET /text after the failed POST returns the  *)
(* value stored before it.                                                 *)
(***************************************************************************)
C30_FailedTextPostKeepsText ==
    /\ /\ req.method = "POST" /\ req.path = TextPath
       /\ \/ ~ParseInt(Header(req, "Content-Length", <<"0">>))[1]
          \/ req.body = InvalidUtf8
       => /\ resp.statuses = <<500>>
          /\ resp.json = <<>>
          /\ synced_text = pre.synced_text
    /\ req.method = "GET" /\ req.path = TextPath =>
          /\ resp.statuses = <<200>>
          /\ resp.json[1].text = pre.synced_text
          /\ synced_text = pre.synced_text

\* a body that is not UTF-8 was refused while the text of an earlier POST
\* was stored
C30_Witness ==
    /\ req.method = "POST" /\ req.path = TextPath
    /\ req.body = InvalidUtf8
    /\ resp.statuses = <<500>>
    /\ synced_text = <<"h", "U+00E9">>

====
